---- MODULE Spec2Model ----
(***************************************************************************)
(* Model of the two scrapers of GravurefitSCRAPER:                          *)
(*   src/scrapers/Gravurefit_python.py  (orchestrator main())               *)
(*   src/JavLibrary_python.py           (module-level script flow)          *)
(*                                                                          *)
(* JSON / Python values are tagged records:                                 *)
(*   [k |-> "none"]              None (also what dict.get gives for a       *)
(*                               missing key)                               *)
(*   [k |-> "str",  s |-> ".."]  a string                                   *)
(*   [k |-> "num",  n |-> 200]   a number                                   *)
(*   [k |-> "list", l |-> <<>>]  a list                                     *)
(*   [k |-> "dict", d |-> [..]]  a dict; d is a function from the keys      *)
(*                               that are present to their values           *)
(***************************************************************************)
EXTENDS Integers, Sequences, FiniteSets, TLC

VARIABLES
    script,      \* which orchestrator this process runs: "gravurefit" or "javlibrary"
    argv,        \* sys.argv (the mode words the host passes)
    stdin,       \* what the host wrote on standard input
    pc,          \* position of the main flow
    stdout,      \* the values printed on standard output, in order
    exitStatus,  \* None while running, then the exit status of the process
    now,         \* time.time(), in whole seconds
    rawDir,      \* CONFIG_BASE/raw: file name -> modification time
    outDir,      \* CONFIG_BASE/outputs: file name -> modification time
    sessionFile, \* CONFIG_BASE/flaresolverr_session.json: its JSON content, or Absent
    netlog,      \* the requests sent so far, in order
    loc,         \* the main flow's variables (SCENE_URL, cookie_header, fs, ...)
    reply,       \* pure-function runs: what the proxy does with the POST
    req,         \* pure-function runs: the payload fetch_via_flaresolverr sent
    fres         \* pure-function runs: outcome of the call, or NotCalled

fetchVars == <<reply, req, fres>>
orchVars == <<script, argv, stdin, pc, stdout, exitStatus, now, rawDir, outDir,
              sessionFile, netlog, loc>>
vars == <<orchVars, fetchVars>>

----------------------------------------------------------------------------
(* Bounds of the model *)

MaxFetchSecs == 1     \* a proxy round trip takes 0..MaxFetchSecs seconds
MaxCookies == 3       \* longest cookie list given to build_cookie_header_from_list
MaxMatches == 2       \* most date matches in a text given to the date finders
MaxTitleLen == 5      \* longest raw title given to normalize_title
MaxTags == 2          \* most links under the theme headings, and under the play headings
StartTime == 2000000  \* time.time() when the process starts

----------------------------------------------------------------------------
(* Python values *)

None == [k |-> "none"]
Str(s) == [k |-> "str", s |-> s]
Num(n) == [k |-> "num", n |-> n]
Lst(l) == [k |-> "list", l |-> l]
Dict(d) == [k |-> "dict", d |-> d]
EmptyDict == [key \in {} |-> None]

IsNone(v) == v.k = "none"
IsStr(v) == v.k = "str"
IsDict(v) == v.k = "dict"

\* bool(v): None, "", 0, [] and {} are falsy
Truthy(v) ==
    CASE v.k = "none" -> FALSE
      [] v.k = "str"  -> v.s # ""
      [] v.k = "num"  -> v.n # 0
      [] v.k = "list" -> Len(v.l) > 0
      [] v.k = "dict" -> DOMAIN v.d # {}

\* a or b
Or(a, b) == IF Truthy(a) THEN a ELSE b

\* v.get(key) on a dict value
Get(v, key) == IF key \in DOMAIN v.d THEN v.d[key] ELSE None

----------------------------------------------------------------------------
(* fetch_via_flaresolverr *)

\* An outcome of a call: the value returned, or the exception that left it.
Returned(v) == [exc |-> "none", ret |-> v]
Raised(e) == [exc |-> e, ret |-> None]
NotCalled == [exc |-> "not_called", ret |-> None]

FetchResult(ok, status, html, cookies, raw) ==
    [ok |-> ok, status |-> status, html |-> html, cookies |-> cookies, raw |-> raw]

\* safe_headers: the Cookie header is merged unless the caller supplied one
SafeHeaders(headers, cookie_header) ==
    LET base == IF Truthy(headers) THEN headers.d ELSE EmptyDict
    IN  IF Truthy(cookie_header) /\ "Cookie" \notin DOMAIN base
        THEN [key \in DOMAIN base \cup {"Cookie"} |->
                 IF key = "Cookie" THEN cookie_header ELSE base[key]]
        ELSE base

\* payload = {cmd, url, maxTimeout[, headers]}
Payload(url, headers, cookie_header, timeout) ==
    LET sh == SafeHeaders(headers, cookie_header)
        core == [cmd |-> Str("request.get"), url |-> url, maxTimeout |-> Num(timeout)]
    IN  IF DOMAIN sh # {}
        THEN Dict([key \in DOMAIN core \cup {"headers"} |->
                      IF key = "headers" THEN Dict(sh) ELSE core[key]])
        ELSE Dict(core)

\* requests.post(...) raises on a connection error or a timeout,
\* r.raise_for_status() raises on a non-2xx status; both sit in one try block.
TransportFails(rep) == rep.k \in {"conn_error", "timeout", "http_error"}

\* o.get("data") or o.get("content") or o.get("html") or html_content,
\* with html_content still None (lines 171 and 179). A variant that does not
\* look at the "html" key.
HtmlOfObject_NoHtmlKey(o) == Or(Or(Get(o, "data"), Get(o, "content")), None)

HtmlOfObject(o) == Or(Or(Or(Get(o, "data"), Get(o, "content")), Get(o, "html")), None)

\* "ok": bool(html_content) (line 194). A variant that tests for None instead.
OkOf_NotNone(html) == ~IsNone(html)

OkOf(html) == Truthy(html)

\* the shape probing of a JSON body that is a dict (lines 165-194)
ProbeDict(data) ==
    LET sol == Or(Or(Get(data, "solution"), Get(data, "response")), data)
        resp == IF IsDict(sol) THEN Get(sol, "response") ELSE None
        html1 ==
            IF IsDict(sol)
            THEN IF IsDict(resp)
                 THEN HtmlOfObject(resp)
                 ELSE IF IsStr(resp) THEN resp
                 ELSE HtmlOfObject(sol)
            ELSE IF IsStr(sol) THEN sol ELSE None
        cookies1 ==
            IF IsDict(sol)
            THEN IF IsDict(resp)
                 THEN Or(Or(Get(resp, "cookies"), Get(sol, "cookies")), Lst(<<>>))
                 ELSE Or(Get(sol, "cookies"), Lst(<<>>))
            ELSE Lst(<<>>)
        status1 ==
            IF IsDict(sol)
            THEN IF IsDict(resp)
                 THEN Or(Or(Get(resp, "status"), Get(sol, "status")), None)
                 ELSE Or(Get(sol, "status"), None)
            ELSE None
        resp2 == Get(data, "response")
        second == ~Truthy(html1)
        html2 ==
            IF second /\ IsDict(resp2)
            THEN Or(Or(Or(Get(resp2, "content"), Get(resp2, "data")), Get(resp2, "html")), html1)
            ELSE IF second /\ IsStr(resp2) THEN resp2
            ELSE html1
        cookies2 == IF second /\ IsDict(resp2) THEN Or(Get(resp2, "cookies"), cookies1) ELSE cookies1
        status2 == IF second /\ IsDict(resp2) THEN Or(Get(resp2, "status"), status1) ELSE status1
    IN  FetchResult(OkOf(html2), status2, html2, cookies2, data)

\* the result for a reply that passed the transport try block
ParseReply(rep) ==
    IF rep.k = "text"
    THEN FetchResult(FALSE, None, Str(rep.text), Lst(<<>>), Str(rep.text))
    ELSE IF IsDict(rep.data)
         THEN ProbeDict(rep.data)
         ELSE FetchResult(FALSE, None, None, Lst(<<>>), rep.data)

TransportErrorResult(rep) ==
    FetchResult(FALSE, None, None, Lst(<<>>), Dict([error |-> Str(rep.msg)]))

\* The transport step: the try block around requests.post and raise_for_status.
\* A variant whose try block does not cover raise_for_status.
TransportStep_StatusOutsideTry(rep) ==
    IF rep.k \in {"conn_error", "timeout"} THEN Returned(TransportErrorResult(rep))
    ELSE IF rep.k = "http_error" THEN Raised("HTTPError")
    ELSE Returned(ParseReply(rep))

TransportStep(rep) ==
    IF TransportFails(rep) THEN Returned(TransportErrorResult(rep))
    ELSE Returned(ParseReply(rep))

fetch_via_flaresolverr(url, headers, cookie_header, timeout, rep) ==
    TransportStep(rep)

----------------------------------------------------------------------------
(* The proxy replies and call arguments the fetch client is exercised with *)

Absent == [k |-> "absent"]

\* a dict holding the slots of rec that are not Absent
Pack(rec) == Dict([key \in {x \in DOMAIN rec : rec[x].k # "absent"} |-> rec[key]])

H1 == Str("<html>a</html>")
H2 == Str("<html>b</html>")
Cookie1 == Dict([name |-> Str("cf_clearance"), value |-> Str("tok")])
Cookie2 == Dict([name |-> Str("sid"), value |-> Str("")])

\* data / content / html slots of one object
HtmlSlots ==
    { <<Absent, Absent, Absent>>, <<H1, Absent, Absent>>, <<Absent, H1, Absent>>,
      <<Absent, Absent, H1>>, <<Str(""), H2, Absent>>, <<Str(""), Absent, Absent>>,
      <<Num(7), Absent, Absent>>, <<H1, H2, Absent>> }
HtmlSlotsFew ==
    { <<Absent, Absent, Absent>>, <<H1, Absent, Absent>>, <<Absent, H1, Absent>>,
      <<Absent, Absent, H1>>, <<H2, Absent, Absent>> }

\* the object found under solution.response (or under response.response)
InnerObjects ==
    { Pack([data |-> h[1], content |-> h[2], html |-> h[3], cookies |-> c, status |-> st]) :
        h \in HtmlSlots, c \in {Absent, Lst(<<Cookie1>>)}, st \in {Absent} }
    \cup { Pack([data |-> H1, status |-> Num(200)]), Pack([status |-> Num(200)]) }

\* the object found under solution
SolutionObjects ==
    { Pack([response |-> r, data |-> h[1], content |-> h[2], html |-> h[3],
            cookies |-> c, status |-> st]) :
        r \in {Absent, None, Str(""), H1, Num(7)} \cup InnerObjects,
        h \in HtmlSlotsFew, c \in {Absent, Lst(<<Cookie2>>)}, st \in {Absent, Num(403)} }

\* the object (or string) found under a top-level response key
ResponseValues ==
    {Absent, Str(""), H1, H2}
    \cup { Pack([response |-> r, data |-> h[1], content |-> h[2], html |-> h[3]]) :
             r \in {Absent, Pack([content |-> H2])}, h \in HtmlSlotsFew }
    \cup { Pack([cookies |-> Lst(<<Cookie1, Cookie2>>), status |-> Num(200)]) }

\* JSON bodies that are objects
JsonObjects ==
    { Pack([solution |-> s, response |-> r, data |-> h[1], content |-> h[2], html |-> h[3],
            cookies |-> c]) :
        s \in {Absent, None, H1} \cup SolutionObjects, r \in ResponseValues,
        h \in HtmlSlotsFew, c \in {Absent} }
    \cup { Pack([data |-> H1, cookies |-> Lst(<<Cookie1>>), status |-> Num(200)]),
           Pack([status |-> Str("error"), message |-> Str("failed")]) }

\* JSON bodies that are not objects
JsonNonObjects == {None, Str("<html>a</html>"), Num(0), Lst(<<>>), Lst(<<H1>>)}

Replies ==
    { [k |-> "conn_error", msg |-> "connection refused"],
      [k |-> "timeout", msg |-> "read timed out"],
      [k |-> "http_error", msg |-> "500 Server Error"],
      [k |-> "text", text |-> "<html>gateway</html>"],
      [k |-> "text", text |-> ""] }
    \cup { [k |-> "json", data |-> d] : d \in JsonObjects \cup JsonNonObjects }

Requests ==
    { [url |-> Str("https://www.gravurefit.com/videos/lulu-255"), headers |-> hd,
       cookie_header |-> ch, timeout |-> 60000] :
        hd \in {None, Dict([Referer |-> Str("https://www.gravurefit.com/")]),
                Dict([Cookie |-> Str("own=1")])},
        ch \in {None, Str("cf_clearance=tok")} }

----------------------------------------------------------------------------
(* Session cache, cookie header, retention pruning *)

FLARE_COOKIE_AGE_SECONDS == 3600
OUTPUT_RETENTION_DAYS == 10
RAW_RETENTION_DAYS == 10
SecondsPerDay == 86400
FLARESOLVERR_TIMEOUT_MAX == 60000

\* f"{v}"
Fmt(v) ==
    CASE v.k = "str"  -> v.s
      [] v.k = "num"  -> ToString(v.n)
      [] v.k = "none" -> "None"
      [] OTHER        -> "?"

\* if name and val is not None (line 130). A variant that tests the value for
\* truth instead.
IsValidCookie_TruthyValue(c) == Truthy(Get(c, "name")) /\ Truthy(Get(c, "value"))

IsValidCookie(c) == Truthy(Get(c, "name")) /\ ~IsNone(Get(c, "value"))

\* the loop over cookies: parts, in input order
RECURSIVE CookieParts(_)
CookieParts(l) ==
    IF l = <<>> THEN <<>>
    ELSE (IF IsValidCookie(Head(l))
          THEN << Fmt(Get(Head(l), "name")) \o "=" \o Fmt(Get(Head(l), "value")) >>
          ELSE <<>>) \o CookieParts(Tail(l))

\* sep.join(parts)
RECURSIVE JoinStr(_, _)
JoinStr(sep, parts) ==
    IF parts = <<>> THEN ""
    ELSE IF Len(parts) = 1 THEN parts[1]
    ELSE parts[1] \o sep \o JoinStr(sep, Tail(parts))

build_cookie_header_from_list(cookies) ==
    LET parts == CookieParts(cookies.l)
    IN  IF parts # <<>> THEN Str(JoinStr("; ", parts)) ELSE None

\* the payload save_flaresolverr_session writes at time t
save_flaresolverr_session(cookies, t) ==
    Dict([timestamp |-> Num(t), cookies |-> cookies])

\* fl_cookies = fs.get("cookies") or []; if fl_cookies: (Gravurefit lines 373-374,
\* JavLibrary lines 335-336 and 692). Variants: one that saves only when html
\* came back, one that saves whatever came back.
ShouldSaveCookies_OnlyOk(fs) == fs.ok /\ Truthy(Or(fs.cookies, Lst(<<>>)))
ShouldSaveCookies_Always(fs) == TRUE

ShouldSaveCookies(fs) == Truthy(Or(fs.cookies, Lst(<<>>)))

\* a session file that cannot be read or whose text json.load rejects
Garbled == [k |-> "garbled"]

\* load_flaresolverr_session: None when the file does not exist and when
\* reading or decoding it raises, otherwise the decoded value
load_flaresolverr_session(file) ==
    IF file.k \in {"absent", "garbled"} THEN None ELSE file

\* (time.time() - int(ts)) <= FLARE_COOKIE_AGE_SECONDS (Gravurefit line 348,
\* JavLibrary lines 323 and 675). A variant with a strict comparison.
IsFresh_Strict(ts, t) == (t - ts) < FLARE_COOKIE_AGE_SECONDS

IsFresh(ts, t) == (t - ts) <= FLARE_COOKIE_AGE_SECONDS

\* session_data.get(key, default)
GetOr(v, key, default) == IF key \in DOMAIN v.d THEN v.d[key] ELSE default

\* the cookie header an orchestrator resolves from the loaded session at time t
ResolveCookieHeader(session_data, t) ==
    IF Truthy(session_data) /\ IsFresh(GetOr(session_data, "timestamp", Num(0)).n, t)
    THEN build_cookie_header_from_list(GetOr(session_data, "cookies", Lst(<<>>)))
    ELSE None

\* the same step with its exceptions: session_data.get on a value that is not
\* a mapping, int(ts) on a value that is not a number, the iteration of
\* cookies that are not a list
ResolveOutcome(session_data, t) ==
    IF ~Truthy(session_data) THEN Returned(None)
    ELSE IF ~IsDict(session_data) THEN Raised("AttributeError")
    ELSE IF GetOr(session_data, "timestamp", Num(0)).k # "num" THEN Raised("TypeError")
    ELSE IF IsFresh(GetOr(session_data, "timestamp", Num(0)).n, t)
            /\ GetOr(session_data, "cookies", Lst(<<>>)).k # "list"
         THEN Raised("TypeError")
    ELSE Returned(ResolveCookieHeader(session_data, t))

\* os.path.getmtime(path) < cutoff
IsExpired(mtime, cutoff) == mtime < cutoff

\* prune_old_raws / prune_old_outputs on one directory at time t
PruneDir(dir, t, days) ==
    LET cutoff == t - days * SecondsPerDay
    IN  [n \in {m \in DOMAIN dir : ~IsExpired(dir[m], cutoff)} |-> dir[n]]

\* open(path, "w") at time t
WriteFile(dir, name, t) ==
    [n \in DOMAIN dir \cup {name} |-> IF n = name THEN t ELSE dir[n]]

----------------------------------------------------------------------------
(* URLs *)

GravUrl == "https://www.gravurefit.com/videos/lulu-255"
GravResolvedUrl == "https://www.gravurefit.com/videos/lulu-255-hd/"
JavUrl == "https://www.javlibrary.com/en/?v=javme5ly4e"

\* s.split("/")
SplitSlash(s) ==
    CASE s = GravUrl -> <<"https:", "", "www.gravurefit.com", "videos", "lulu-255">>
      [] s = GravResolvedUrl ->
            <<"https:", "", "www.gravurefit.com", "videos", "lulu-255-hd", "">>
      [] s = JavUrl -> <<"https:", "", "www.javlibrary.com", "en", "?v=javme5ly4e">>
      [] s = "" -> <<"">>
      [] OTHER -> <<s>>

\* urlparse(s).netloc
Netloc(s) ==
    LET parts == SplitSlash(s)
    IN  IF Len(parts) >= 3 /\ parts[2] = "" THEN parts[3] ELSE ""

\* parts = [p for p in raw_url.split("/") if p]; parts[-1] if parts else "result"
Basename(s) ==
    LET parts == SelectSeq(SplitSlash(s), LAMBDA x : x # "")
    IN  IF parts # <<>> THEN parts[Len(parts)] ELSE "result"

----------------------------------------------------------------------------
(* The pages the proxy can return, and what the extractor finds in them *)

PageFull == "<html>a</html>"
PageBare == "<html>b</html>"

NoFields == EmptyDict

\* extract_gravure_fields, by page
extract_gravure_fields(html) ==
    IF IsStr(html) /\ html.s = PageFull
    THEN [title_raw |-> Str("LULU-255: Scene Title / LULU255"), title |-> Str("Scene Title"),
          details |-> Str("details"), date |-> Str("2019-03-01"),
          performers |-> Lst(<<Str("Hitomi")>>), tags |-> Lst(<<Str("A"), Str("B")>>),
          image |-> Str("https://www.gravurefit.com/img/lulu-255.jpg"),
          studio |-> Str("LULU"), code |-> Str("LULU-255")]
    ELSE [title_raw |-> None, title |-> None, details |-> None, date |-> None,
          performers |-> Lst(<<>>), tags |-> Lst(<<>>), image |-> None, studio |-> None,
          code |-> None]

\* parsed.get(key)
Field(parsed, key) == IF key \in DOMAIN parsed THEN parsed[key] ELSE None

----------------------------------------------------------------------------
(* Process state shared by both orchestrators *)

NoLocals ==
    [FRAGMENT |-> None, SCENE_URL |-> None, SCENE_TITLE |-> None, SEARCH_TITLE |-> None,
     session_data |-> None, cookie_header |-> None, fs |-> None, raw_basename |-> None,
     parsed |-> NoFields, result |-> None,
     \* JavLibrary_python.py only
     WAIT_FOR_ALIASES |-> FALSE,     \* line 87
     JAV_SEARCH_HTML |-> None, JAV_MAIN_HTML |-> None, PROTECTION_CLOUDFLARE |-> FALSE,
     site_i |-> 0, response_html |-> None, jav_result |-> EmptyDict, scrape |-> None,
     imageBase64_jav_thread |-> "unstarted", javlibrary_aliases_thread |-> "unstarted"]

\* print(json.dumps(v))
PrintJson(v) == stdout' = Append(stdout, v)

\* the process ends with status st
Exit(st) == pc' = "done" /\ exitStatus' = Num(st)

\* an uncaught exception: traceback on stderr, status 1
Crash == pc' = "crashed" /\ exitStatus' = Num(1)

EmptyObject == Dict(EmptyDict)

----------------------------------------------------------------------------
(* Gravurefit_python.py: main() *)

HEADERS_BROWSER_LIKE ==
    Dict([key \in {"User-Agent", "Accept", "Accept-Language", "Referer"} |->
            CASE key = "User-Agent" -> Str("Mozilla/5.0")
              [] key = "Accept" -> Str("text/html")
              [] key = "Accept-Language" -> Str("ja-JP")
              [] OTHER -> Str("https://www.gravurefit.com/")])

\* lines 325-337: read the fragment, require a url
G_Read ==
    /\ script = "gravurefit" /\ pc = "start"
    /\ IF stdin.k # "json"
       THEN \* json.loads raised: print {} and return
            /\ PrintJson(EmptyObject) /\ Exit(0) /\ UNCHANGED loc
       ELSE IF ~IsDict(stdin.v)
       THEN \* FRAGMENT.get on a value that is no dict: AttributeError, not caught
            /\ Crash /\ UNCHANGED <<stdout, loc>>
       ELSE IF ~Truthy(Get(stdin.v, "url"))
       THEN /\ PrintJson(EmptyObject) /\ Exit(0)
            /\ loc' = [loc EXCEPT !.FRAGMENT = stdin.v, !.SCENE_URL = Get(stdin.v, "url")]
       ELSE /\ pc' = "prune_raws"
            /\ loc' = [loc EXCEPT !.FRAGMENT = stdin.v, !.SCENE_URL = Get(stdin.v, "url")]
            /\ UNCHANGED <<stdout, exitStatus>>
    /\ UNCHANGED <<script, argv, stdin, now, rawDir, outDir, sessionFile, netlog, fetchVars>>

\* line 340
G_PruneRaws ==
    /\ script = "gravurefit" /\ pc = "prune_raws"
    /\ rawDir' = PruneDir(rawDir, now, OUTPUT_RETENTION_DAYS)
    /\ pc' = "prune_outputs"
    /\ UNCHANGED <<script, argv, stdin, stdout, exitStatus, now, outDir, sessionFile,
                   netlog, loc, fetchVars>>

\* line 341
G_PruneOutputs ==
    /\ script = "gravurefit" /\ pc = "prune_outputs"
    /\ outDir' = PruneDir(outDir, now, OUTPUT_RETENTION_DAYS)
    /\ pc' = "resolve"
    /\ UNCHANGED <<script, argv, stdin, stdout, exitStatus, now, rawDir, sessionFile,
                   netlog, loc, fetchVars>>

\* lines 343-349: load the session, use its cookies when fresh
G_Resolve ==
    /\ script = "gravurefit" /\ pc = "resolve"
    /\ LET session_data == load_flaresolverr_session(sessionFile)
           header == ResolveOutcome(session_data, now)
       IN  IF header.exc # "none"
           THEN \* nothing in main() catches it
                /\ loc' = [loc EXCEPT !.session_data = session_data]
                /\ Crash
           ELSE /\ loc' = [loc EXCEPT !.session_data = session_data,
                                      !.cookie_header = header.ret]
                /\ pc' = "fetch"
                /\ UNCHANGED exitStatus
    /\ UNCHANGED <<script, argv, stdin, stdout, now, rawDir, outDir, sessionFile, netlog,
                   fetchVars>>

\* what the proxy may answer to a request of an orchestrator
CaptchaPage == "<html>Checking your browser before accessing</html>"
OrchReplies ==
    { [k |-> "conn_error", msg |-> "connection refused"],
      [k |-> "text", text |-> "<html>gateway</html>"],
      [k |-> "json", data |->
          Dict([status |-> Str("ok"),
                solution |-> Dict([url |-> Str(GravResolvedUrl), status |-> Num(200),
                                   response |-> Str(PageFull),
                                   cookies |-> Lst(<<Cookie1>>)])])],
      [k |-> "json", data |->
          Dict([solution |-> Dict([status |-> Num(200), response |-> Str(PageBare)])])],
      [k |-> "json", data |->
          Dict([solution |-> Dict([status |-> Num(403), response |-> Str(""),
                                   cookies |-> Lst(<<Cookie2, Cookie1>>)])])],
      [k |-> "json", data |-> Dict([status |-> Str("error"), message |-> Str("failed")])],
      [k |-> "json", data |->
          Dict([solution |-> Dict([status |-> Num(200), response |-> Str(CaptchaPage)])])],
      [k |-> "json", data |-> Dict([solution |-> Str(PageFull)])] }

\* line 353: the fetch; the proxy answers after dt seconds
G_Fetch ==
    /\ script = "gravurefit" /\ pc = "fetch"
    /\ \E rep \in OrchReplies, dt \in 0..MaxFetchSecs :
          /\ loc' = [loc EXCEPT !.fs = fetch_via_flaresolverr(loc.SCENE_URL,
                        HEADERS_BROWSER_LIKE, loc.cookie_header,
                        FLARESOLVERR_TIMEOUT_MAX, rep).ret]
          /\ netlog' = Append(netlog, Payload(loc.SCENE_URL, HEADERS_BROWSER_LIKE,
                                              loc.cookie_header, FLARESOLVERR_TIMEOUT_MAX))
          /\ now' = now + dt
    /\ pc' = "save_raw"
    /\ UNCHANGED <<script, argv, stdin, stdout, exitStatus, rawDir, outDir, sessionFile,
                   fetchVars>>

\* lines 359-363 / 683: the url the raw file is named from; raises when the value
\* under "solution" is truthy and no dict, or when the url is no string
RawUrl(raw, scene_url) ==
    LET sol == IF IsDict(raw) THEN Get(raw, "solution") ELSE None
        u == IF Truthy(sol) /\ IsDict(sol) THEN Get(sol, "url") ELSE None
        raw_url == IF Truthy(u) THEN u ELSE scene_url
    IN  IF Truthy(sol) /\ ~IsDict(sol) THEN Raised("AttributeError")
        ELSE IF ~IsStr(raw_url) THEN Raised("AttributeError")
        ELSE Returned(raw_url)

\* lines 355-370: save the raw response under the resolved url's basename
G_SaveRaw ==
    /\ script = "gravurefit" /\ pc = "save_raw"
    /\ LET u == RawUrl(loc.fs.raw, loc.SCENE_URL)
       IN  IF u.exc # "none"
           THEN UNCHANGED <<rawDir, loc>>
           ELSE /\ loc' = [loc EXCEPT !.raw_basename = Str(Basename(u.ret.s))]
                /\ rawDir' = WriteFile(rawDir, Basename(u.ret.s) \o "_flaresolverr_raw.json", now)
    /\ pc' = "save_cookies"
    /\ UNCHANGED <<script, argv, stdin, stdout, exitStatus, now, outDir, sessionFile,
                   netlog, fetchVars>>

\* lines 372-379: persist the cookies the fetch returned
G_SaveCookies ==
    /\ script = "gravurefit" /\ pc = "save_cookies"
    /\ LET fl_cookies == Or(loc.fs.cookies, Lst(<<>>))
       IN  sessionFile' = IF ShouldSaveCookies(loc.fs)
                          THEN save_flaresolverr_session(fl_cookies, now)
                          ELSE sessionFile
    /\ pc' = "parse"
    /\ UNCHANGED <<script, argv, stdin, stdout, exitStatus, now, rawDir, outDir, netlog,
                   loc, fetchVars>>

\* lines 391-402
G_Result(parsed, scene_url, raw) ==
    Dict(("code" :> Field(parsed, "code")) @@ ("title" :> Field(parsed, "title"))
         @@ ("date" :> Field(parsed, "date"))
         @@ ("performers" :> Or(Field(parsed, "performers"), Lst(<<>>)))
         @@ ("tags" :> Or(Field(parsed, "tags"), Lst(<<>>)))
         @@ ("image" :> Field(parsed, "image")) @@ ("studio" :> Field(parsed, "studio"))
         @@ ("details" :> Field(parsed, "details")) @@ ("url" :> scene_url)
         @@ ("_flaresolverr_raw" :> raw))

\* if fs.get("ok") and fs.get("html"): (Gravurefit line 383, JavLibrary line
\* 694). A variant that looks at html only.
ShouldParse_HtmlOnly(fs) == Truthy(fs.html)

ShouldParse(fs) == fs.ok /\ Truthy(fs.html)

\* lines 381-402: run the extractor when html came back, build the result
G_Parse ==
    /\ script = "gravurefit" /\ pc = "parse"
    /\ LET parsed == IF ShouldParse(loc.fs)
                     THEN extract_gravure_fields(loc.fs.html) ELSE NoFields
       IN  loc' = [loc EXCEPT !.parsed = parsed,
                              !.result = G_Result(parsed, loc.SCENE_URL, loc.fs.raw)]
    /\ pc' = "save_out"
    /\ UNCHANGED <<script, argv, stdin, stdout, exitStatus, now, rawDir, outDir,
                   sessionFile, netlog, fetchVars>>

\* lines 404-411
G_SaveOut ==
    /\ script = "gravurefit" /\ pc = "save_out"
    /\ outDir' = IF Truthy(loc.raw_basename)
                 THEN WriteFile(outDir, loc.raw_basename.s \o ".json", now)
                 ELSE outDir
    /\ pc' = "print"
    /\ UNCHANGED <<script, argv, stdin, stdout, exitStatus, now, rawDir, sessionFile,
                   netlog, loc, fetchVars>>

\* line 414, then main() returns
G_Print ==
    /\ script = "gravurefit" /\ pc = "print"
    /\ PrintJson(loc.result) /\ Exit(0)
    /\ UNCHANGED <<script, argv, stdin, now, rawDir, outDir, sessionFile, netlog, loc,
                   fetchVars>>

----------------------------------------------------------------------------
(* JavLibrary_python.py: the module-level script *)

SITE_JAVLIB == <<"javlibrary", "o58c", "e59f">>

\* re.sub(r"www\.|\.com", "", urlparse(url).netloc)
UrlDomain(s) ==
    CASE Netloc(s) = "www.gravurefit.com" -> "gravurefit"
      [] Netloc(s) = "www.javlibrary.com" -> "javlibrary"
      [] OTHER -> Netloc(s)

\* the part of the url after the netloc
UrlPath(s) ==
    CASE s = GravUrl -> "/videos/lulu-255"
      [] s = JavUrl -> "/en/?v=javme5ly4e"
      [] OTHER -> ""

\* url.replace(url_domain, site)
MirrorUrl(s, site) ==
    IF UrlDomain(s) = "" THEN s ELSE "https://www." \o site \o ".com" \o UrlPath(s)

\* the bot-check markers of lines 350-351
HasBotCheckMarker(html) == html = CaptchaPage

\* The annotations of line 134-136 name Optional and List, which the file never
\* imports: an interpreter that evaluates annotations when a def statement runs
\* raises NameError there, one that defers them does not.
J_Load ==
    /\ script = "javlibrary" /\ pc = "start"
    /\ \/ /\ Crash /\ UNCHANGED stdout
       \/ /\ pc' = "read" /\ UNCHANGED <<stdout, exitStatus>>
    /\ UNCHANGED <<script, argv, stdin, now, rawDir, outDir, sessionFile, netlog, loc,
                   fetchVars>>

\* lines 523-536: read the fragment; no try block around json.loads
J_Read ==
    /\ script = "javlibrary" /\ pc = "read"
    /\ IF stdin.k # "json" \/ ~IsDict(stdin.v)
       THEN \* JSONDecodeError, or AttributeError of FRAGMENT.get: not caught
            /\ Crash /\ UNCHANGED <<stdout, loc>>
       ELSE LET FRAGMENT == stdin.v
                url == Get(FRAGMENT, "url")
            IN  /\ loc' = [loc EXCEPT !.FRAGMENT = FRAGMENT,
                               !.SEARCH_TITLE = Get(FRAGMENT, "name"),
                               !.SCENE_URL = url,
                               !.SCENE_TITLE = IF Truthy(Get(FRAGMENT, "title"))
                                               THEN Get(FRAGMENT, "title") ELSE None]
                /\ IF "validSearch" \in argv /\ IsNone(url)
                   THEN \* sys.exit() with nothing printed
                        Exit(0) /\ UNCHANGED stdout
                   ELSE pc' = "prune" /\ UNCHANGED <<stdout, exitStatus>>
    /\ UNCHANGED <<script, argv, stdin, now, rawDir, outDir, sessionFile, netlog, fetchVars>>

\* line 539: only the raw directory is pruned
J_Prune ==
    /\ script = "javlibrary" /\ pc = "prune"
    /\ rawDir' = PruneDir(rawDir, now, RAW_RETENTION_DAYS)
    /\ pc' = "request"
    /\ UNCHANGED <<script, argv, stdin, stdout, exitStatus, now, outDir, sessionFile,
                   netlog, loc, fetchVars>>

\* A response object of a direct request
JavResponse(url, content) ==
    Dict([url |-> Str(url), content |-> Str(content), html |-> Str(content),
          status_code |-> Num(200)])

SearchUrl == "https://www.javlibrary.com/en/vl_searchbyid.php?keyword="
\* what the search endpoint can answer: a direct hit or a list of candidates
SearchResponses ==
    { JavResponse(JavUrl, "jav:movie_full"), JavResponse(JavUrl, "jav:movie_bare"),
      JavResponse(SearchUrl, "jav:search_list"), JavResponse(SearchUrl, "jav:search_empty") }
\* what a movie url can answer
MovieResponses ==
    { JavResponse(JavUrl, "jav:movie_full"), JavResponse(JavUrl, "jav:movie_bare") }

DirectRequest(url) == Dict([cmd |-> Str("direct.get"), url |-> Str(url)])

\* send_request(url, headers): a direct request to the site. It gives the
\* response, or None when the request failed; a bot-check page is a failure that
\* sets PROTECTION_CLOUDFLARE.
SendRequest(url, answers, field) ==
    /\ netlog' = Append(netlog, DirectRequest(url))
    /\ \/ \E r \in answers :
             loc' = [loc EXCEPT ![field] = r]
       \/ \E blocked \in BOOLEAN :
             loc' = [loc EXCEPT ![field] = None,
                                !.PROTECTION_CLOUDFLARE = blocked]

\* lines 541-552: the first request of the run
J_Request ==
    /\ script = "javlibrary" /\ pc = "request"
    /\ IF "searchName" \in argv
       THEN /\ SendRequest(SearchUrl, SearchResponses, "JAV_SEARCH_HTML")
            /\ pc' = "search_print"
       ELSE IF Truthy(loc.SCENE_URL)
       THEN IF \E i \in 1..Len(SITE_JAVLIB) : SITE_JAVLIB[i] = UrlDomain(loc.SCENE_URL.s)
            THEN /\ SendRequest(loc.SCENE_URL.s, MovieResponses, "JAV_MAIN_HTML")
                 /\ pc' = "title_search"
            ELSE /\ pc' = "bp_resolve"
                 /\ loc' = [loc EXCEPT !.PROTECTION_CLOUDFLARE = FALSE, !.site_i = 1]
                 /\ UNCHANGED netlog
       ELSE /\ pc' = "title_search" /\ UNCHANGED <<loc, netlog>>
    /\ UNCHANGED <<script, argv, stdin, stdout, exitStatus, now, rawDir, outDir,
                   sessionFile, fetchVars>>

\* bypass_protection, lines 319-324: the cookie header for this site's request
BP_Resolve ==
    /\ script = "javlibrary" /\ pc = "bp_resolve"
    /\ LET session_data == load_flaresolverr_session(sessionFile)
           header == ResolveOutcome(session_data, now)
       IN  IF header.exc # "none"
           THEN \* lines 344-346: except Exception ... return None, None
                /\ loc' = [loc EXCEPT !.session_data = session_data,
                                      !.JAV_MAIN_HTML = None]
                /\ pc' = "title_search"
           ELSE /\ loc' = [loc EXCEPT !.session_data = session_data,
                                      !.cookie_header = header.ret]
                /\ pc' = "bp_fetch"
    /\ UNCHANGED <<script, argv, stdin, stdout, exitStatus, now, rawDir, outDir,
                   sessionFile, netlog, fetchVars>>

BP_Headers == Dict([key \in {"Content-Type"} |-> Str("application/json")])

\* bypass_protection, lines 325-333: the fetch of the mirror's url
BP_Fetch ==
    /\ script = "javlibrary" /\ pc = "bp_fetch"
    /\ \E rep \in OrchReplies, dt \in 0..MaxFetchSecs :
          LET url_n == Str(MirrorUrl(loc.SCENE_URL.s, SITE_JAVLIB[loc.site_i]))
              fs_res == fetch_via_flaresolverr(url_n, BP_Headers, loc.cookie_header,
                                               FLARESOLVERR_TIMEOUT_MAX, rep).ret
              html == Or(fs_res.html, Str(""))
          IN  /\ loc' = [loc EXCEPT !.fs = fs_res,
                            !.response_html =
                                Dict([content |-> html, html |-> html,
                                      status_code |-> Or(fs_res.status,
                                            IF fs_res.ok THEN Num(200) ELSE Num(0)),
                                      url |-> url_n])]
              /\ netlog' = Append(netlog, Payload(url_n, BP_Headers, loc.cookie_header,
                                                  FLARESOLVERR_TIMEOUT_MAX))
              /\ now' = now + dt
    /\ pc' = "bp_save"
    /\ UNCHANGED <<script, argv, stdin, stdout, exitStatus, rawDir, outDir, sessionFile,
                   fetchVars>>

\* bypass_protection, lines 334-338: persist the cookies the fetch returned
BP_Save ==
    /\ script = "javlibrary" /\ pc = "bp_save"
    /\ LET returned_cookies == Or(loc.fs.cookies, Lst(<<>>))
       IN  sessionFile' = IF ShouldSaveCookies(loc.fs)
                          THEN save_flaresolverr_session(returned_cookies, now)
                          ELSE sessionFile
    /\ pc' = "bp_check"
    /\ UNCHANGED <<script, argv, stdin, stdout, exitStatus, now, rawDir, outDir, netlog,
                   loc, fetchVars>>

\* bypass_protection, lines 348-363, and lines 558-562 once it has returned
BP_Check ==
    /\ script = "javlibrary" /\ pc = "bp_check"
    /\ LET r == loc.response_html
           marker == HasBotCheckMarker(Get(r, "html").s)
           accepted == ~marker /\ Get(r, "status_code") = Num(200)
       IN  IF accepted
           THEN \* return site, response_html
                /\ loc' = [loc EXCEPT !.JAV_MAIN_HTML =
                                 IF Truthy(Get(r, "html")) THEN r ELSE None]
                /\ pc' = "title_search"
           ELSE IF loc.site_i < Len(SITE_JAVLIB)
           THEN /\ loc' = [loc EXCEPT !.site_i = @ + 1,
                              !.PROTECTION_CLOUDFLARE = @ \/ marker]
                /\ pc' = "bp_resolve"
           ELSE \* return None, None
                /\ loc' = [loc EXCEPT !.PROTECTION_CLOUDFLARE = @ \/ marker,
                              !.JAV_MAIN_HTML = None]
                /\ pc' = "title_search"
    /\ UNCHANGED <<script, argv, stdin, stdout, exitStatus, now, rawDir, outDir,
                   sessionFile, netlog, fetchVars>>

\* lines 563-567: search by title when no page was obtained
J_TitleSearch ==
    /\ script = "javlibrary" /\ pc = "title_search"
    /\ IF IsNone(loc.JAV_MAIN_HTML) /\ Truthy(loc.SCENE_TITLE)
       THEN SendRequest(SearchUrl, SearchResponses, "JAV_SEARCH_HTML")
       ELSE UNCHANGED <<loc, netlog>>
    /\ pc' = "jav_search"
    /\ UNCHANGED <<script, argv, stdin, stdout, exitStatus, now, rawDir, outDir,
                   sessionFile, fetchVars>>

\* getxpath(jav_xPath[key], tree) on the page with this content
XP(content, key) ==
    IF content = "jav:movie_full"
    THEN CASE key \in {"code", "title"} -> Lst(<<Str("ABC-123")>>)
           [] key = "details" -> Lst(<<Str("ABC-123 Some Title")>>)
           [] key = "url" -> Lst(<<Str("//www.javlibrary.com/en/?v=javme5ly4e")>>)
           [] key = "date" -> Lst(<<Str("2020-01-02")>>)
           [] key = "tags" -> Lst(<<Str("Drama")>>)
           [] key = "performers" -> Lst(<<Str("Aoi")>>)
           [] key = "performers_url" -> Lst(<<Str("vl_star.php?s=ae")>>)
           [] key = "studio" -> Lst(<<Str("Studio")>>)
           [] key = "image" -> Lst(<<Str("//pics.dmm.co.jp/abc123pl.jpg")>>)
           [] OTHER -> Lst(<<>>)
    ELSE Lst(<<>>)

JavXPathKeys ==
    {"code", "title", "details", "url", "date", "director", "tags", "performers",
     "performers_url", "studio", "image"}

TitleOnly(t) == Lst(<< Dict([title |-> Str(t)]) >>)

\* jav_search_by_name: the candidates of a search-results page
jav_search_by_name(content) ==
    IF content = "jav:search_list"
    THEN Lst(<< Dict([title |-> Str("ABC-123 Some Title"),
                      url |-> Str("https://www.javlibrary.com/en/?v=javme5ly4e"),
                      image |-> Str("https://pics.dmm.co.jp/abc123ps.jpg")]) >>)
    ELSE Lst(<<>>)

\* line 606, jav_result = [jav_result]; a variant that leaves the mapping bare
DirectHitResult_Bare(hit) == hit

DirectHitResult(hit) == Lst(<<hit>>)

\* lines 592-625: the searchName flow prints and exits
J_SearchPrint ==
    /\ script = "javlibrary" /\ pc = "search_print"
    /\ LET h == loc.JAV_SEARCH_HTML
           content == Get(h, "content").s
           direct == Get(h, "url").s = JavUrl      \* "/en/?v=" in JAV_SEARCH_HTML.url
           keys == {"title", "details", "url", "image"}
           hit == Dict([key \in keys |->
                     IF key \in {"image", "url"}
                     THEN Str("https:" \o XP(content, key).l[1].s)
                     ELSE XP(content, key).l[1]])
       IN  IF ~Truthy(h)
           THEN /\ PrintJson(IF loc.PROTECTION_CLOUDFLARE
                             THEN TitleOnly("Protected by Cloudflare, try later.")
                             ELSE TitleOnly("The request has failed to get the page. Check log."))
                /\ Exit(0) /\ UNCHANGED loc
           ELSE IF direct /\ \E key \in keys : XP(content, key).l = <<>>
           THEN \* value[0] on an empty list: IndexError, not caught
                /\ Crash /\ UNCHANGED <<stdout, loc>>
           ELSE LET jav_result == IF direct THEN DirectHitResult(hit)
                                 ELSE jav_search_by_name(content)
                IN  /\ PrintJson(IF Truthy(jav_result) THEN jav_result
                                 ELSE TitleOnly("The search doesn't return any result."))
                    /\ Exit(0)
                    /\ loc' = [loc EXCEPT !.result = jav_result]
    /\ UNCHANGED <<script, argv, stdin, now, rawDir, outDir, sessionFile, netlog, fetchVars>>

\* lines 628-629: jav_search requests the page of the first candidate
J_JavSearch ==
    /\ script = "javlibrary" /\ pc = "jav_search"
    /\ IF Truthy(loc.JAV_SEARCH_HTML) /\ IsNone(loc.JAV_MAIN_HTML)
       THEN SendRequest(JavUrl, MovieResponses, "JAV_MAIN_HTML")
       ELSE UNCHANGED <<loc, netlog>>
    /\ pc' = "parse_main"
    /\ UNCHANGED <<script, argv, stdin, stdout, exitStatus, now, rawDir, outDir,
                   sessionFile, fetchVars>>

\* lines 631-662: query the page, post-process, start the background units
J_ParseMain ==
    /\ script = "javlibrary" /\ pc = "parse_main"
    /\ IF Truthy(loc.JAV_MAIN_HTML)
       THEN LET content == Get(loc.JAV_MAIN_HTML, "content").s
                got == [key \in JavXPathKeys |-> XP(content, key)]
                first(key) == got[key].l[1]
                post == [key \in JavXPathKeys |->
                           IF ~Truthy(got[key]) THEN got[key]
                           ELSE CASE key = "image" -> Str("https:" \o first(key).s)
                                  [] key = "url" -> Str("https:" \o first(key).s)
                                  [] key = "details" -> Str("Some Title")
                                  [] key \in {"title", "director"} -> first(key)
                                  [] OTHER -> got[key]]
            IN  loc' = [loc EXCEPT !.jav_result = post,
                           !.imageBase64_jav_thread =
                               IF Truthy(got["image"]) THEN "running" ELSE @,
                           !.javlibrary_aliases_thread =
                               IF Truthy(got["performers_url"]) THEN "running" ELSE @]
       ELSE UNCHANGED loc
    /\ pc' = "no_result"
    /\ UNCHANGED <<script, argv, stdin, stdout, exitStatus, now, rawDir, outDir,
                   sessionFile, netlog, fetchVars>>

\* th_imageto_base64: the image unit writes the encoded image into its slot
T_Image ==
    /\ script = "javlibrary" /\ exitStatus = None
    /\ loc.imageBase64_jav_thread = "running"
    /\ loc' = [loc EXCEPT !.imageBase64_jav_thread = "finished",
                  !.jav_result = [@ EXCEPT !["image"] = Str("data:image/jpeg;base64,AAAA")]]
    /\ UNCHANGED <<script, argv, stdin, pc, stdout, exitStatus, now, rawDir, outDir,
                   sessionFile, netlog, fetchVars>>

\* th_request_perfpage: the aliases unit writes the aliases into its slot
T_Aliases ==
    /\ script = "javlibrary" /\ exitStatus = None
    /\ loc.javlibrary_aliases_thread = "running"
    /\ loc' = [loc EXCEPT !.javlibrary_aliases_thread = "finished",
                  !.jav_result = [key \in DOMAIN @ \cup {"performer_aliases"} |->
                      IF key = "performer_aliases" THEN Lst(<<Str("Aoi (JP)")>>) ELSE @[key]]]
    /\ netlog' = Append(netlog, DirectRequest("vl_star.php?s=ae"))
    /\ UNCHANGED <<script, argv, stdin, pc, stdout, exitStatus, now, rawDir, outDir,
                   sessionFile, fetchVars>>

\* lines 664-671: nothing found and no url, else pick the branch
J_NoResult ==
    /\ script = "javlibrary" /\ pc = "no_result"
    /\ IF IsNone(loc.JAV_MAIN_HTML) /\ ~Truthy(loc.SCENE_URL)
       THEN PrintJson(EmptyObject) /\ Exit(0)
       ELSE /\ pc' = IF Truthy(loc.SCENE_URL) /\ Netloc(loc.SCENE_URL.s) = "www.gravurefit.com"
                     THEN "grav_resolve" ELSE "final"
            /\ UNCHANGED <<stdout, exitStatus>>
    /\ UNCHANGED <<script, argv, stdin, now, rawDir, outDir, sessionFile, netlog, loc,
                   fetchVars>>

\* lines 674-675: the cookie header for the gravurefit fetch
JG_Resolve ==
    /\ script = "javlibrary" /\ pc = "grav_resolve"
    /\ LET session_data == load_flaresolverr_session(sessionFile)
           header == ResolveOutcome(session_data, now)
       IN  IF header.exc # "none"
           THEN \* nothing at module level catches it
                /\ loc' = [loc EXCEPT !.session_data = session_data]
                /\ Crash
           ELSE /\ loc' = [loc EXCEPT !.session_data = session_data,
                                      !.cookie_header = header.ret]
                /\ pc' = "grav_fetch"
                /\ UNCHANGED exitStatus
    /\ UNCHANGED <<script, argv, stdin, stdout, now, rawDir, outDir, sessionFile, netlog,
                   fetchVars>>

JG_Headers == Dict([key \in {"User-Agent"} |-> Str("Mozilla/5.0")])

\* line 676
JG_Fetch ==
    /\ script = "javlibrary" /\ pc = "grav_fetch"
    /\ \E rep \in OrchReplies, dt \in 0..MaxFetchSecs :
          /\ loc' = [loc EXCEPT !.fs = fetch_via_flaresolverr(loc.SCENE_URL, JG_Headers,
                        loc.cookie_header, FLARESOLVERR_TIMEOUT_MAX, rep).ret]
          /\ netlog' = Append(netlog, Payload(loc.SCENE_URL, JG_Headers, loc.cookie_header,
                                              FLARESOLVERR_TIMEOUT_MAX))
          /\ now' = now + dt
    /\ pc' = "grav_save_raw"
    /\ UNCHANGED <<script, argv, stdin, stdout, exitStatus, rawDir, outDir, sessionFile,
                   fetchVars>>

\* line 683: fs.get("raw", {}).get("solution", {}).get("url") or SCENE_URL
J_RawUrl(raw, scene_url) ==
    IF ~IsDict(raw) THEN Raised("AttributeError")
    ELSE LET sol == GetOr(raw, "solution", EmptyObject)
         IN  IF ~IsDict(sol) THEN Raised("AttributeError")
             ELSE LET raw_url == Or(Get(sol, "url"), scene_url)
                  IN  IF ~IsStr(raw_url) THEN Raised("AttributeError")
                      ELSE Returned(raw_url)

\* lines 678-690
JG_SaveRaw ==
    /\ script = "javlibrary" /\ pc = "grav_save_raw"
    /\ LET u == J_RawUrl(loc.fs.raw, loc.SCENE_URL)
       IN  IF ~Truthy(loc.fs.raw) \/ u.exc # "none"
           THEN UNCHANGED <<rawDir, loc>>
           ELSE /\ loc' = [loc EXCEPT !.raw_basename = Str(Basename(u.ret.s))]
                /\ rawDir' = WriteFile(rawDir, Basename(u.ret.s) \o "_flaresolverr_raw.json", now)
    /\ pc' = "grav_save_cookies"
    /\ UNCHANGED <<script, argv, stdin, stdout, exitStatus, now, outDir, sessionFile,
                   netlog, fetchVars>>

\* lines 691-693
JG_SaveCookies ==
    /\ script = "javlibrary" /\ pc = "grav_save_cookies"
    /\ sessionFile' = IF ShouldSaveCookies(loc.fs)
                      THEN save_flaresolverr_session(loc.fs.cookies, now)
                      ELSE sessionFile
    /\ pc' = "grav_parse"
    /\ UNCHANGED <<script, argv, stdin, stdout, exitStatus, now, rawDir, outDir, netlog,
                   loc, fetchVars>>

\* lines 697-707
JG_Result(parsed, scene_url) ==
    Dict([code |-> Field(parsed, "code"), title |-> Field(parsed, "title"),
          date |-> Field(parsed, "date"), performers |-> Field(parsed, "performers"),
          tags |-> Field(parsed, "tags"), image |-> Field(parsed, "image"),
          studio |-> Field(parsed, "studio"), details |-> Field(parsed, "details"),
          url |-> scene_url])

\* lines 694-707
JG_Parse ==
    /\ script = "javlibrary" /\ pc = "grav_parse"
    /\ LET parsed == IF ShouldParse(loc.fs)
                     THEN extract_gravure_fields(loc.fs.html) ELSE NoFields
       IN  loc' = [loc EXCEPT !.parsed = parsed,
                              !.result = JG_Result(parsed, loc.SCENE_URL)]
    /\ pc' = "grav_save_out"
    /\ UNCHANGED <<script, argv, stdin, stdout, exitStatus, now, rawDir, outDir,
                   sessionFile, netlog, fetchVars>>

\* lines 708-715
JG_SaveOut ==
    /\ script = "javlibrary" /\ pc = "grav_save_out"
    /\ outDir' = IF Truthy(loc.raw_basename)
                 THEN WriteFile(outDir, loc.raw_basename.s \o ".json", now)
                 ELSE outDir
    /\ pc' = "grav_print"
    /\ UNCHANGED <<script, argv, stdin, stdout, exitStatus, now, rawDir, sessionFile,
                   netlog, loc, fetchVars>>

\* lines 717-718
JG_Print ==
    /\ script = "javlibrary" /\ pc = "grav_print"
    /\ PrintJson(loc.result) /\ Exit(0)
    /\ UNCHANGED <<script, argv, stdin, now, rawDir, outDir, sessionFile, netlog, loc,
                   fetchVars>>

\* jav_result.get(key)
JR(jav_result, key) == IF key \in DOMAIN jav_result THEN jav_result[key] ELSE None
\* next(iter(jav_result.get(key, []))) if jav_result.get(key) else None
FirstOf(jav_result, key) ==
    IF Truthy(JR(jav_result, key)) THEN JR(jav_result, key).l[1] ELSE None

\* buildlist_tagperf(jav_result, "perf_jav"): the performers with whatever
\* aliases are in the aliases slot when it is called
buildlist_tagperf(jav_result) ==
    Dict([names |-> Or(JR(jav_result, "performers"), Lst(<<>>)),
          aliases |-> Or(JR(jav_result, "performer_aliases"), Lst(<<>>))])

\* lines 734-739, if WAIT_FOR_ALIASES and not IGNORE_ALIASES: if
\* javlibrary_aliases_thread.is_alive(): join(). IGNORE_ALIASES is False (line
\* 85). A variant that does not wait.
JoinAliasesThread_NoWait(wait, thread) == TRUE

JoinAliasesThread(wait, thread) == wait => thread # "running"

\* lines 721-742: assemble the record; where WAIT_FOR_ALIASES is False, as the
\* file sets it, the aliases unit is not joined before the performers are built
J_Final ==
    /\ script = "javlibrary" /\ pc = "final"
    /\ JoinAliasesThread(loc.WAIT_FOR_ALIASES, loc.javlibrary_aliases_thread)
    /\ LET jr == loc.jav_result
       IN  loc' = [loc EXCEPT !.scrape =
                     [code |-> FirstOf(jr, "code"), title |-> JR(jr, "title"),
                      date |-> FirstOf(jr, "date"), director |-> Or(JR(jr, "director"), None),
                      url |-> JR(jr, "url"), details |-> JR(jr, "details"),
                      studio |-> FirstOf(jr, "studio"), label |-> None,
                      performers |-> buildlist_tagperf(jr),
                      tags |-> Or(JR(jr, "tags"), Lst(<<>>)), image |-> Absent]]
    /\ pc' = "final_image"
    /\ UNCHANGED <<script, argv, stdin, stdout, exitStatus, now, rawDir, outDir,
                   sessionFile, netlog, fetchVars>>

\* lines 745-746, if imageBase64_jav_thread.is_alive(): join(): the main flow
\* goes on once the unit is not running; a variant that does not wait
JoinImageThread_NoWait(thread) == TRUE

JoinImageThread(thread) == thread # "running"

\* lines 744-750: join the image unit if it was started, then read its slot
J_FinalImage ==
    /\ script = "javlibrary" /\ pc = "final_image"
    /\ JoinImageThread(loc.imageBase64_jav_thread)
    /\ loc' = IF loc.imageBase64_jav_thread # "unstarted"
                   /\ Truthy(JR(loc.jav_result, "image"))
              THEN [loc EXCEPT !.scrape.image = JR(loc.jav_result, "image")]
              ELSE loc
    /\ pc' = "final_print"
    /\ UNCHANGED <<script, argv, stdin, stdout, exitStatus, now, rawDir, outDir,
                   sessionFile, netlog, fetchVars>>

\* line 752, then the script ends
J_FinalPrint ==
    /\ script = "javlibrary" /\ pc = "final_print"
    /\ PrintJson(Pack(loc.scrape)) /\ Exit(0)
    /\ UNCHANGED <<script, argv, stdin, now, rawDir, outDir, sessionFile, netlog, loc,
                   fetchVars>>

----------------------------------------------------------------------------
(* The orchestrators: initial states and next-state relation *)

\* what the host may write on standard input
Fragments ==
    { EmptyObject,
      Dict([url |-> Str(GravUrl)]),
      Dict([url |-> Str(JavUrl)]),
      Dict([title |-> Str("ABC-123")]),
      Dict([name |-> Str("ABC-123")]),
      Dict([url |-> Str(""), name |-> Str("ABC-123")]) }
Stdins ==
    { [k |-> "empty"], [k |-> "garbage"], [k |-> "json", v |-> Lst(<<>>)] }
    \cup { [k |-> "json", v |-> f] : f \in Fragments }

\* the cache directories when the process starts: files on both sides of the
\* retention cutoff
Retention == OUTPUT_RETENTION_DAYS * SecondsPerDay
NoFiles == [n \in {} |-> 0]
AgedFiles(suffix) ==
    [n \in {"old" \o suffix, "edge" \o suffix, "young" \o suffix} |->
        CASE n = "old" \o suffix -> StartTime - Retention - SecondsPerDay
          [] n = "edge" \o suffix -> StartTime - Retention - 1
          [] OTHER -> StartTime - Retention + SecondsPerDay]
DirCases ==
    { [raw |-> NoFiles, out |-> NoFiles],
      [raw |-> AgedFiles("_flaresolverr_raw.json"), out |-> AgedFiles(".json")] }

\* the session file when the process starts: what an earlier run saved
SessionCases ==
    { Absent, Garbled,
      Dict([cookies |-> Lst(<<Cookie1>>)]),      \* JSON without a timestamp
      Dict([timestamp |-> Num(StartTime)]),      \* JSON without cookies
      Lst(<<Num(1)>>) }                          \* JSON that is not an object
    \cup { save_flaresolverr_session(Lst(<<Cookie1, Cookie2>>), StartTime - age) :
             age \in { FLARE_COOKIE_AGE_SECONDS + 1, FLARE_COOKIE_AGE_SECONDS,
                       FLARE_COOKIE_AGE_SECONDS - 1 } }

Init ==
    /\ \/ script = "gravurefit" /\ argv = {}
       \/ script = "javlibrary" /\ argv \in {{}, {"searchName"}, {"validSearch"}}
    /\ stdin \in Stdins
    /\ pc = "start"
    /\ stdout = <<>>
    /\ exitStatus = None
    /\ now = StartTime
    /\ \E d \in DirCases : rawDir = d.raw /\ outDir = d.out
    /\ sessionFile \in SessionCases
    /\ netlog = <<>>
    /\ loc = NoLocals
    /\ reply = None /\ req = None /\ fres = NotCalled

Next ==
    \/ G_Read \/ G_PruneRaws \/ G_PruneOutputs \/ G_Resolve \/ G_Fetch \/ G_SaveRaw
    \/ G_SaveCookies \/ G_Parse \/ G_SaveOut \/ G_Print
    \/ J_Load \/ J_Read \/ J_Prune \/ J_Request
    \/ BP_Resolve \/ BP_Fetch \/ BP_Save \/ BP_Check
    \/ J_TitleSearch \/ J_SearchPrint \/ J_JavSearch \/ J_ParseMain \/ T_Image \/ T_Aliases
    \/ J_NoResult
    \/ JG_Resolve \/ JG_Fetch \/ JG_SaveRaw \/ JG_SaveCookies \/ JG_Parse \/ JG_SaveOut
    \/ JG_Print
    \/ J_Final \/ J_FinalImage \/ J_FinalPrint

Spec == Init /\ [][Next]_vars

----------------------------------------------------------------------------
(* fetch_via_flaresolverr on its own, over the proxy replies of Replies *)

\* no orchestrator runs
OrchIdle ==
    /\ script = "none" /\ argv = {} /\ stdin = [k |-> "empty"] /\ pc = "idle"
    /\ stdout = <<>> /\ exitStatus = None /\ now = StartTime
    /\ rawDir = NoFiles /\ outDir = NoFiles /\ sessionFile = Absent
    /\ netlog = <<>> /\ loc = NoLocals

InitFetch ==
    /\ OrchIdle
    /\ reply \in Replies
    /\ req = None
    /\ fres = NotCalled

\* a call of fetch_via_flaresolverr (either file's copy; the two are the same)
CallFetch ==
    /\ fres = NotCalled
    /\ \E a \in Requests :
          /\ req' = Payload(a.url, a.headers, a.cookie_header, a.timeout)
          /\ fres' = fetch_via_flaresolverr(a.url, a.headers, a.cookie_header, a.timeout, reply)
    /\ UNCHANGED <<reply, orchVars>>

NextFetch == CallFetch

SpecFetch == InitFetch /\ [][NextFetch]_vars

(***************************************************************************)
(* build_cookie_header_from_list on its own: the cookie list is drawn from *)
(* lists of up to MaxCookies entries whose name is missing, empty or       *)
(* present and whose value is missing, null, empty, a string or a number.  *)
(***************************************************************************)
CookieNames == {Absent, Str(""), Str("a"), Str("b")}
CookieValues == {Absent, None, Str(""), Str("1"), Num(0)}
CookieEntries == { Pack([name |-> n, value |-> v]) : n \in CookieNames, v \in CookieValues }
CookieLists == { Lst(l) : l \in UNION { [1..n -> CookieEntries] : n \in 0..MaxCookies } }

InitCookie ==
    /\ OrchIdle
    /\ reply = None
    /\ req \in CookieLists
    /\ fres = NotCalled

CallBuildCookieHeader ==
    /\ fres = NotCalled
    /\ fres' = Returned(build_cookie_header_from_list(req))
    /\ UNCHANGED <<reply, req, orchVars>>

NextCookie == CallBuildCookieHeader

SpecCookie == InitCookie /\ [][NextCookie]_vars

(***************************************************************************)
(* Properties of the orchestrators, stated over Spec.                      *)
(***************************************************************************)
Terminated == pc \in {"done", "crashed"}

\* C1: every run of either orchestrator ends having printed exactly one JSON
\* value on standard output and with exit status 0, whatever the input, the
\* mode and the answers of the network were.
C1_OneJsonValueExitZero ==
    Terminated => (Len(stdout) = 1 /\ exitStatus = Num(0))

\* the fragment on standard input names nothing to scrape
NoIdentifier(frag) ==
    IF script = "gravurefit" THEN ~Truthy(Get(frag, "url"))
    ELSE ~Truthy(Get(frag, "name")) /\ ~Truthy(Get(frag, "title"))
         /\ ~Truthy(Get(frag, "url"))

UnusableInput ==
    \/ stdin.k \in {"empty", "garbage"}
    \/ stdin.k = "json" /\ IsDict(stdin.v) /\ NoIdentifier(stdin.v)

\* C2: a run whose standard input is empty, is not JSON, or is a fragment
\* without a usable identifier does not crash: it ends with the empty object
\* as its only output.
C2_InputErrorPrintsEmptyObject ==
    (Terminated /\ UnusableInput) => (pc = "done" /\ stdout = <<EmptyObject>>)

\* the session cookies are resolved and the fetch has not been sent yet
AtResolved == pc \in {"fetch", "bp_fetch", "grav_fetch"}

\* the fetch has answered and the next statement has not run yet
AtFetched == pc \in {"save_raw", "bp_save", "grav_save_raw"}

SessionAge == now - loc.session_data.d["timestamp"].n

\* a loaded session as save_flaresolverr_session writes it
IsSession(v) == IsDict(v) /\ {"timestamp", "cookies"} \subseteq DOMAIN v.d

\* the Cookie header of the request sent last, None when it has none
CookieSent ==
    LET payload == netlog[Len(netlog)]
    IN  Get(Get(payload, "headers"), "Cookie")

\* C6: at each of the three places where a cookie header is resolved, the
\* stored cookies become the Cookie header of the fetch exactly when
\* now - timestamp <= FLARE_COOKIE_AGE_SECONDS; a session older than that gives
\* no Cookie header.
C6_FreshnessBoundary ==
    /\ (AtResolved /\ IsSession(loc.session_data)) =>
          /\ (SessionAge <= FLARE_COOKIE_AGE_SECONDS) =>
                /\ loc.cookie_header # None
                /\ loc.cookie_header =
                     build_cookie_header_from_list(loc.session_data.d["cookies"])
          /\ (SessionAge > FLARE_COOKIE_AGE_SECONDS) => loc.cookie_header = None
    /\ (AtResolved /\ ~IsSession(loc.session_data)) => loc.cookie_header = None
    /\ AtFetched => CookieSent = loc.cookie_header

\* a session exactly FLARE_COOKIE_AGE_SECONDS old has been resolved and used
C6_Witness ==
    /\ AtFetched /\ IsSession(loc.session_data)
    /\ loc.cookie_header = Str("cf_clearance=tok; sid=")
    /\ CookieSent = loc.cookie_header
    /\ loc.session_data.d["timestamp"].n = StartTime - FLARE_COOKIE_AGE_SECONDS

\* a fetch has answered and the statement that saves its cookies has run
AfterSave ==
    /\ pc \notin {"crashed", "save_raw", "save_cookies", "bp_save",
                   "grav_save_raw", "grav_save_cookies"}
    /\ loc.fs # None

\* C7: once the cookies of a fetch have been handled, the session file holds
\* the time of the save and exactly the cookies the fetch returned when these
\* are not empty, whether html came back or not; when the fetch returned no
\* cookies the file is as it was before the fetch.
C7_SessionOverwrittenOnCookies ==
    AfterSave =>
        IF Truthy(loc.fs.cookies)
        THEN sessionFile = Dict([timestamp |-> Num(now), cookies |-> loc.fs.cookies])
        ELSE \* the file still loads as it did before the fetch
             load_flaresolverr_session(sessionFile) = loc.session_data

\* a fetch that recovered no html returned cookies, and they replaced the
\* session found at start
C7_Witness ==
    /\ AfterSave /\ pc \in {"parse", "bp_check", "grav_parse"}
    /\ ~loc.fs.ok /\ Truthy(loc.fs.cookies)
    /\ IsSession(loc.session_data)
    /\ sessionFile # loc.session_data
    /\ sessionFile = Dict([timestamp |-> Num(now), cookies |-> loc.fs.cookies])

\* C8: the session file is never removed or changed by pruning or by a failed
\* freshness test: every step that changes it is a save that follows a fetch
\* with a non-empty cookie list, and writes that list with the current time.
C8_SessionChangesOnlyBySave ==
    [][ sessionFile' # sessionFile =>
          /\ pc \in {"save_cookies", "bp_save", "grav_save_cookies"}
          /\ Truthy(loc.fs.cookies)
          /\ sessionFile' = Dict([timestamp |-> Num(now), cookies |-> loc.fs.cookies])
      ]_vars

\* a stale session was refused, the directories were pruned, a fetch without
\* cookies went by, and the file is still what it was
C8_Witness ==
    /\ pc \in {"parse", "bp_check", "grav_parse"}
    /\ IsSession(loc.session_data) /\ loc.cookie_header = None
    /\ loc.session_data.d["timestamp"].n = StartTime - FLARE_COOKIE_AGE_SECONDS - 1
    /\ ~Truthy(loc.fs.cookies)
    /\ "old_flaresolverr_raw.json" \notin DOMAIN rawDir
    /\ "young_flaresolverr_raw.json" \in DOMAIN rawDir
    /\ sessionFile = loc.session_data

\* pruning is over and nothing has been fetched or written yet
AfterPrune ==
    /\ netlog = <<>>
    /\ \/ script = "gravurefit" /\ pc \in {"resolve", "fetch"}
       \/ script = "javlibrary" /\ pc \in {"request", "bp_resolve", "bp_fetch",
                                             "title_search", "grav_resolve", "grav_fetch"}

\* C9: when either orchestrator has finished pruning, neither the raw
\* directory nor the outputs directory holds a file whose modification time is
\* before now - OUTPUT_RETENTION_DAYS * 86400, and the files at or after that
\* cutoff are all still there.
C9_BothDirectoriesPruned ==
    AfterPrune =>
        /\ \A n \in DOMAIN rawDir : rawDir[n] >= now - Retention
        /\ \A n \in DOMAIN outDir : outDir[n] >= now - Retention
        /\ \/ rawDir = NoFiles /\ outDir = NoFiles
           \/ /\ "young_flaresolverr_raw.json" \in DOMAIN rawDir
              /\ "young.json" \in DOMAIN outDir

(***************************************************************************)
(* Properties of fetch_via_flaresolverr, stated over SpecFetch.            *)
(***************************************************************************)
FetchReturned == fres.exc = "none"

\* C3: fetch_via_flaresolverr returns and never raises, and when the post
\* fails (connection error, timeout, error status of the proxy) what it
\* returns is exactly ok False, status None, html None, cookies [] and
\* raw {error: message}.
C3_TransportFailureRecord ==
    fres # NotCalled =>
        /\ fres.exc = "none"
        /\ reply.k \in {"conn_error", "timeout", "http_error"} =>
              fres.ret = [ok |-> FALSE, status |-> None, html |-> None,
                          cookies |-> Lst(<<>>),
                          raw |-> Dict([error |-> Str(reply.msg)])]

\* the proxy answered with an error status and the call has returned
C3_Witness ==
    /\ FetchReturned /\ reply.k = "http_error"
    /\ fres.ret.raw = Dict([error |-> Str("500 Server Error")])
    /\ ~fres.ret.ok

IsHtmlText(v) == IsStr(v) /\ v.s # ""

\* C4 as stated: whatever the proxy answered, ok is true exactly when the
\* returned html is a non-empty text.
C4_OkIffHtmlText ==
    FetchReturned => (fres.ret.ok <=> IsHtmlText(fres.ret.html))

\* C4: ok is true exactly when the body was a JSON object and the html value
\* recovered from it is truthy; a body that is not JSON gives ok False with
\* the body text as html, a JSON body that is not an object and a failed post
\* give ok False with html None; the status plays no part.
C4_OkIffTruthyHtmlOfJsonObject ==
    FetchReturned =>
        /\ fres.ret.ok <=> (reply.k = "json" /\ IsDict(reply.data) /\ Truthy(fres.ret.html))
        /\ reply.k = "json" => (fres.ret.ok <=> Truthy(fres.ret.html))
        /\ (reply.k = "json" /\ IsStr(fres.ret.html)) =>
              (fres.ret.ok <=> IsHtmlText(fres.ret.html))
        /\ reply.k = "text" =>
              (~fres.ret.ok /\ fres.ret.html = Str(reply.text) /\ fres.ret.raw = Str(reply.text))
        /\ (reply.k = "json" /\ ~IsDict(reply.data)) =>
              (~fres.ret.ok /\ fres.ret.html = None)
        /\ reply.k \in {"conn_error", "timeout", "http_error"} =>
              (~fres.ret.ok /\ fres.ret.html = None)

\* html was recovered from an answer that reports status 403, and ok is True
C4_Witness ==
    /\ FetchReturned /\ reply.k = "json"
    /\ fres.ret.ok /\ fres.ret.html = H1 /\ fres.ret.status = Num(403)

\* the answers that carry h at one of the places the chain looks at
Placements(h) ==
    { Dict([solution |-> Dict([response |-> Dict([data |-> h])])]),
      Dict([solution |-> Dict([response |-> Dict([content |-> h])])]),
      Dict([solution |-> Dict([response |-> Dict([html |-> h])])]),
      Dict([solution |-> Dict([response |-> h])]),
      Dict([solution |-> Dict([data |-> h])]),
      Dict([solution |-> Dict([content |-> h])]),
      Dict([solution |-> Dict([html |-> h])]),
      Dict([response |-> Dict([data |-> h])]),
      Dict([response |-> Dict([content |-> h])]),
      Dict([response |-> Dict([html |-> h])]),
      Dict([response |-> h]),
      Dict([data |-> h]),
      Dict([content |-> h]),
      Dict([html |-> h]) }

\* C5: an answer that carries the non-empty html string h at any one of the
\* places of the fallback chain gives html = h and ok True, so that all these
\* answers, {solution: {response: {data: h}}} and {response: h} among them,
\* give the same html.
C5_ShapeInvariant ==
    (FetchReturned /\ reply.k = "json") =>
        \A h \in {H1, H2} :
            reply.data \in Placements(h) => (fres.ret.html = h /\ fres.ret.ok)

\* the answer {solution: {response: {html: h}}} has been probed, and every
\* placement of h is among the answers the proxy gives
C5_Witness ==
    /\ FetchReturned /\ reply.k = "json"
    /\ reply.data = Dict([solution |-> Dict([response |-> Dict([html |-> H1])])])
    /\ fres.ret.html = H1
    /\ Placements(H1) \subseteq JsonObjects

(***************************************************************************)
(* Properties of build_cookie_header_from_list, stated over SpecCookie.    *)
(***************************************************************************)
\* an entry with a non-empty name and a value that is present and not null
ValidEntry(c) ==
    /\ "name" \in DOMAIN c.d /\ c.d["name"].k = "str" /\ c.d["name"].s # ""
    /\ "value" \in DOMAIN c.d /\ c.d["value"].k # "none"

PairText(c) ==
    c.d["name"].s \o "=" \o
        (IF c.d["value"].k = "str" THEN c.d["value"].s ELSE ToString(c.d["value"].n))

\* the pairs of a non-empty sequence of valid entries, joined from the left
RECURSIVE PairsJoined(_)
PairsJoined(v) ==
    IF Len(v) = 1 THEN PairText(v[1])
    ELSE PairsJoined(SubSeq(v, 1, Len(v) - 1)) \o "; " \o PairText(v[Len(v)])

\* C10: build_cookie_header_from_list gives None when the list has no entry
\* with a non-empty name and a non-null value (the empty list included), and
\* otherwise the name=value pairs of exactly those entries, in the order of
\* the list, joined by "; ".
C10_CookieHeader ==
    fres # NotCalled =>
        LET valid == SelectSeq(req.l, ValidEntry)
        IN  /\ fres.exc = "none"
            /\ valid = <<>> => fres.ret = None
            /\ valid # <<>> => fres.ret = Str(PairsJoined(valid))
            /\ fres.ret # Str("")

\* a list whose middle entry has a null value and whose last value is the
\* empty string has been joined
C10_Witness ==
    /\ fres # NotCalled
    /\ req = Lst(<< Dict([name |-> Str("b"), value |-> Num(0)]),
                    Dict([name |-> Str("a"), value |-> None]),
                    Dict([name |-> Str("a"), value |-> Str("")]) >>)
    /\ fres.ret = Str("b=0; a=")

(***************************************************************************)
(* Properties of the gravurefit result record, stated over Spec.           *)
(***************************************************************************)
\* the result record of a gravurefit page has been built
ResultBuilt ==
    /\ pc \in {"save_out", "print", "grav_save_out", "grav_print", "done"}
    /\ IsDict(loc.result)

ProxyFailed == ~loc.fs.ok \/ ~Truthy(loc.fs.html)

ScalarFields == {"code", "title", "date", "image", "studio", "details"}
ListFields == {"performers", "tags"}

\* the record is printed as the only output when the run ends
PrintedIsResult == pc = "done" => stdout = <<loc.result>>

\* C11 as stated: after a failed fetch the extractor is not run, every content
\* field of the printed record is null and url is the url of the fragment;
\* url is the url of the fragment in every printed record.
C11_AllContentFieldsNull ==
    ResultBuilt =>
        /\ PrintedIsResult
        /\ loc.result.d["url"] = stdin.v.d["url"]
        /\ ProxyFailed =>
              /\ loc.parsed = NoFields
              /\ \A f \in ScalarFields \cup ListFields : loc.result.d[f] = None

\* C11: after a failed fetch the extractor is not run and code, title, date,
\* image, studio and details of the printed record are null; performers and
\* tags are null in the record of JavLibrary_python.py and empty lists in the
\* record of Gravurefit_python.py; url is the url of the fragment in every
\* printed record, whatever url the proxy reports.
C11_FailedFetchRecord ==
    ResultBuilt =>
        /\ PrintedIsResult
        /\ loc.result.d["url"] = stdin.v.d["url"]
        /\ ProxyFailed =>
              /\ loc.parsed = NoFields
              /\ \A f \in ScalarFields : loc.result.d[f] = None
              /\ \A f \in ListFields :
                    loc.result.d[f] = IF script = "gravurefit" THEN Lst(<<>>) ELSE None

\* a run whose proxy answered with a body that is not JSON has printed its record
C11_Witness ==
    /\ pc = "done" /\ IsDict(loc.result)
    /\ ~loc.fs.ok /\ Truthy(loc.fs.html)
    /\ stdout = <<loc.result>>
    /\ loc.result.d["url"] = Str(GravUrl)
    /\ loc.result.d["code"] = None

(***************************************************************************)
(* The date finders on their own.  A text is given by the matches its two  *)
(* regular expressions find, in the order of the text: a match of          *)
(* (\d{4})年\s*(\d{1,2})月\s*(\d{1,2})日 (form "localized") or of           *)
(* \d{4}-\d{2}-\d{2} (form "iso"), with the numbers its digits spell.       *)
(***************************************************************************)
DateMatch(form, y, mo, d) == [form |-> form, y |-> y, mo |-> mo, d |-> d]

IsLeap(y) == (y % 4 = 0 /\ y % 100 # 0) \/ y % 400 = 0

DaysInMonth(y, mo) ==
    IF mo = 2 THEN (IF IsLeap(y) THEN 29 ELSE 28)
    ELSE IF mo \in {4, 6, 9, 11} THEN 30 ELSE 31

\* datetime(y, mo, d), datetime.fromisoformat and time.strptime accept exactly
\* the dates of the calendar, years 1 to 9999
IsCalendarDate(y, mo, d) ==
    /\ y \in 1..9999 /\ mo \in 1..12
    /\ d >= 1 /\ d <= DaysInMonth(y, mo)

\* the order of datetime values and of (y, m, d) tuples
DateLeq(a, b) ==
    \/ a[1] < b[1]
    \/ a[1] = b[1] /\ a[2] < b[2]
    \/ a[1] = b[1] /\ a[2] = b[2] /\ a[3] <= b[3]

\* min(dates) / sorted(dates)[0]
RECURSIVE MinDate(_)
MinDate(dates) ==
    IF Len(dates) = 1 THEN dates[1]
    ELSE LET m == MinDate(Tail(dates))
         IN  IF DateLeq(dates[1], m) THEN dates[1] ELSE m

Pad2(n) == IF n < 10 THEN "0" \o ToString(n) ELSE ToString(n)

\* strftime("%Y-%m-%d") and f"{y}-{m:02d}-{d:02d}": the year is printed without
\* padding by both
FormatDate(dt) == Str(ToString(dt[1]) \o "-" \o Pad2(dt[2]) \o "-" \o Pad2(dt[3]))

\* the dates one loop appends: the matches of one form, those that pass the
\* validation of that loop, in text order
RECURSIVE DatesOf(_, _, _)
DatesOf(matches, form, validated) ==
    IF matches = <<>> THEN <<>>
    ELSE LET m == Head(matches)
             keep == m.form = form /\ (validated => IsCalendarDate(m.y, m.mo, m.d))
         IN  (IF keep THEN << <<m.y, m.mo, m.d>> >> ELSE <<>>)
             \o DatesOf(Tail(matches), form, validated)

\* Gravurefit_python.py: both loops build a datetime, which validates
find_earliest_date_in_text(matches) ==
    LET dates == DatesOf(matches, "localized", TRUE) \o DatesOf(matches, "iso", TRUE)
    IN  IF dates = <<>> THEN None ELSE FormatDate(MinDate(dates))

\* JavLibrary_python.py: the first loop validates with time.strptime, the
\* second appends (int(yy), int(mm), int(dd)) as it is
find_earliest_date_from_text(matches) ==
    LET dates == DatesOf(matches, "localized", TRUE) \o DatesOf(matches, "iso", FALSE)
    IN  IF dates = <<>> THEN None ELSE FormatDate(MinDate(dates))

MatchYears == {0, 2019, 2020}
MatchMonths == {2, 3, 13}
MatchDays == {1, 29, 30}
DateMatches ==
    { DateMatch(f, y, mo, d) :
        f \in {"localized", "iso"}, y \in MatchYears, mo \in MatchMonths, d \in MatchDays }
DateTexts == UNION { [1..n -> DateMatches] : n \in 0..MaxMatches }

InitDate ==
    /\ OrchIdle
    /\ reply = None
    /\ req \in DateTexts
    /\ fres = NotCalled

CallDateFinders ==
    /\ fres = NotCalled
    /\ fres' = Returned([in_text |-> find_earliest_date_in_text(req),
                         from_text |-> find_earliest_date_from_text(req)])
    /\ UNCHANGED <<reply, req, orchVars>>

NextDate == CallDateFinders

SpecDate == InitDate /\ [][NextDate]_vars

\* the matches of a text that are dates of the calendar
ValidMatches(matches) ==
    { i \in 1..Len(matches) :
        IsCalendarDate(matches[i].y, matches[i].mo, matches[i].d) }

DateOfMatch(m) == <<m.y, m.mo, m.d>>

\* C13: both date finders return the earliest of the matches, of either form,
\* that are dates of the calendar, written YYYY-MM-DD, wherever it stands in
\* the text; matches that are no dates are skipped, a text without a valid
\* match gives no date, and the two finders agree on every text.
C13_EarliestValidDate ==
    fres # NotCalled =>
        LET valid == ValidMatches(req)
        IN  /\ fres.ret.in_text = fres.ret.from_text
            /\ valid = {} => fres.ret.from_text = None
            /\ valid # {} =>
                  \E i \in valid :
                      /\ \A k \in valid : DateLeq(DateOfMatch(req[i]), DateOfMatch(req[k]))
                      /\ fres.ret.from_text = FormatDate(DateOfMatch(req[i]))

(***************************************************************************)
(* normalize_title / normalize_gravure_title on their own.  A title is a   *)
(* sequence of characters; the character classes of the three regular      *)
(* expressions are given on the characters that occur.                     *)
(***************************************************************************)
Text(chars) == [k |-> "text", c |-> chars]

AlnumChars == {"A", "L", "U", "S", "T", "c", "e", "i", "l", "n", "t", "2", "5", "_"}
DashChars == {"-"}               \* [-－—]
ColonChars == {":"}              \* [:：]
SpaceChars == {" "}              \* \s, [ \t]
CodeChars == AlnumChars \cup {"-", "(", ")"}     \* [A-Za-z0-9_\-()]
LeadCodeChars == AlnumChars \cup {"-"}           \* [A-Za-z0-9_\-]

\* t[from..]
Drop(t, from) == SubSeq(t, from, Len(t))

\* the first position at or after i whose character is not a space (Len+1 if none)
RECURSIVE SkipSpaces(_, _)
SkipSpaces(t, i) ==
    IF i <= Len(t) /\ t[i] \in SpaceChars THEN SkipSpaces(t, i + 1) ELSE i

\* the last position at or before i whose character is not a space (0 if none)
RECURSIVE SkipSpacesBack(_, _)
SkipSpacesBack(t, i) ==
    IF i >= 1 /\ t[i] \in SpaceChars THEN SkipSpacesBack(t, i - 1) ELSE i

\* str.strip()
Strip(t) == SubSeq(t, SkipSpaces(t, 1), SkipSpacesBack(t, Len(t)))

\* the first position at or after i whose character is in the class (Len+1 if none)
RECURSIVE FirstIn(_, _, _)
FirstIn(t, i, class) ==
    IF i <= Len(t) /\ t[i] \notin class THEN FirstIn(t, i + 1, class) ELSE i

\* the first position at or after i whose character is not in the class
RECURSIVE FirstNotIn(_, _, _)
FirstNotIn(t, i, class) ==
    IF i <= Len(t) /\ t[i] \in class THEN FirstNotIn(t, i + 1, class) ELSE i

\* re.sub(r'^[^－\-\—]+[ \t]*[-－\—][ \t]*', '', t): a variant whose dash is
\* optional
StripLeadingPerformer_DashOptional(t) ==
    LET p == FirstIn(t, 1, DashChars)
    IN  IF p = 1 THEN t
        ELSE IF p > Len(t) THEN <<>>
        ELSE Drop(t, SkipSpaces(t, p + 1))

\* re.sub(r'^[^－\-\—]+[ \t]*[-－\—][ \t]*', '', t): what stands before the
\* first dash, the dash and the blanks after it are removed when the dash is
\* not the first character
StripLeadingPerformer(t) ==
    LET p == FirstIn(t, 1, DashChars)
    IN  IF p > 1 /\ p <= Len(t) THEN Drop(t, SkipSpaces(t, p + 1)) ELSE t

\* the last position of "/" in t, 0 if none
RECURSIVE LastSlash(_, _)
LastSlash(t, i) == IF i >= 1 /\ t[i] # "/" THEN LastSlash(t, i - 1) ELSE i

\* re.sub(r'\s*/\s*[A-Za-z0-9_\-()]+$', '', t): the match needs a "/" followed
\* by blanks and then code characters only, up to the end, so the "/" is the
\* last one; the match starts at the blanks before it
StripTrailingCode(t) ==
    LET q == LastSlash(t, Len(t))
        c == IF q = 0 THEN 0 ELSE SkipSpaces(t, q + 1)
    IN  IF q >= 1 /\ c <= Len(t) /\ FirstNotIn(t, c, CodeChars) = Len(t) + 1
        THEN SubSeq(t, 1, SkipSpacesBack(t, q - 1))
        ELSE t

\* re.sub(r'^[A-Za-z0-9_\-]+[:：]\s*', '', t)
StripLeadingCode(t) ==
    LET p == FirstNotIn(t, 1, LeadCodeChars)
    IN  IF p > 1 /\ p <= Len(t) /\ t[p] \in ColonChars
        THEN Drop(t, SkipSpaces(t, p + 1)) ELSE t

\* normalize_title(raw_title): raw_title is None or Text(chars)
normalize_title(raw_title) ==
    IF raw_title = None \/ raw_title.c = <<>> THEN None
    ELSE LET t1 == Strip(raw_title.c)
             t2 == Strip(StripLeadingPerformer(t1))
             t3 == Strip(StripTrailingCode(t2))
             t4 == Strip(StripLeadingCode(t3))
         IN  IF t4 # <<>> THEN Text(t4) ELSE None

TitleAlphabet == {"A", " ", "-", "/", ":", "(", "."}
SceneTitle == <<"S", "c", "e", "n", "e", " ", "T", "i", "t", "l", "e">>
\* "LULU-255: Scene Title / LULU255"
FullTitle ==
    <<"L", "U", "L", "U", "-", "2", "5", "5", ":", " ">> \o SceneTitle
        \o <<" ", "/", " ", "L", "U", "L", "U", "2", "5", "5">>
RawTitles ==
    { Text(t) : t \in UNION { [1..n -> TitleAlphabet] : n \in 0..MaxTitleLen } }
    \cup {None, Text(SceneTitle), Text(FullTitle)}

InitTitle ==
    /\ OrchIdle
    /\ reply = None
    /\ req \in RawTitles
    /\ fres = NotCalled

\* normalize_title applied to a raw title, and again to what it gave
CallNormalizeTitle ==
    /\ fres = NotCalled
    /\ LET once == normalize_title(req)
       IN  fres' = Returned([once |-> once, twice |-> normalize_title(once)])
    /\ UNCHANGED <<reply, req, orchVars>>

NextTitle == CallNormalizeTitle

SpecTitle == InitTitle /\ [][NextTitle]_vars

NormalizedTwice == fres # NotCalled /\ fres.ret.once # None

\* C14 as stated: normalizing the result of a normalization gives the same
\* title, for every raw title whose normalization is not None.
C14_Idempotent ==
    NormalizedTwice => fres.ret.twice = fres.ret.once

HasMarker(chars) ==
    \E i \in 1..Len(chars) : chars[i] \in DashChars \cup ColonChars \cup {"/"}

\* C14: a normalized title has no blanks at either end and is not empty, and
\* normalizing it again gives the same title whenever it holds no dash, no
\* slash and no colon, as "Scene Title" does; a normalized title that still
\* holds one of these may lose a further prefix or suffix.
C14_IdempotentWithoutMarkers ==
    /\ NormalizedTwice =>
          /\ fres.ret.once.c # <<>>
          /\ Strip(fres.ret.once.c) = fres.ret.once.c
          /\ ~HasMarker(fres.ret.once.c) => fres.ret.twice = fres.ret.once
    /\ (fres # NotCalled /\ req = Text(SceneTitle)) =>
          (fres.ret.once = Text(SceneTitle) /\ fres.ret.twice = Text(SceneTitle))

\* "LULU-255: Scene Title / LULU255" has been normalized to "Scene Title", and
\* "Scene Title" to itself
C14_Witness ==
    /\ fres # NotCalled /\ req = Text(FullTitle)
    /\ fres.ret.once = Text(SceneTitle)
    /\ fres.ret.twice = Text(SceneTitle)

(***************************************************************************)
(* extract_gravure_fields on a parsed document.  A document is given by    *)
(* what lxml.html.fromstring does with the html ("ok", "retry_ok" when     *)
(* only the second attempt, on str(html_content), parses, "fail" when      *)
(* neither does) and by the result list of each xpath query of the         *)
(* function; the text of the document is given by the date matches in it.  *)
(* The queries of a parsed document return lists and do not raise; the     *)
(* handlers around each query in JavLibrary_python.py assign what an empty *)
(* result list gives.                                                      *)
(***************************************************************************)
FieldRaised == [k |-> "raised"]

\* raw_title_list[0].strip() if raw_title_list else None: a variant that takes
\* the first element without looking
TitleRawOf_Unguarded(doc) ==
    IF doc.h1 # <<>> THEN Text(Strip(doc.h1[1])) ELSE FieldRaised

TitleRawOf(doc) == IF doc.h1 # <<>> THEN Text(Strip(doc.h1[1])) ELSE None

TitleOf(doc) ==
    LET raw == TitleRawOf(doc)
    IN  IF raw = FieldRaised THEN FieldRaised ELSE normalize_title(raw)

DetailsOf(doc) ==
    LET details == IF doc.meta_description # <<>> THEN doc.meta_description
                   ELSE doc.p_description
    IN  IF details # <<>> THEN Text(Strip(details[1])) ELSE None

\* [x.strip() for x in items if x.strip()]
RECURSIVE StripAll(_)
StripAll(items) ==
    IF items = <<>> THEN <<>>
    ELSE (IF Strip(Head(items)) # <<>> THEN <<Text(Strip(Head(items)))>> ELSE <<>>)
         \o StripAll(Tail(items))

PerformersOf(doc) ==
    LET performers == IF doc.actress_links # <<>> THEN doc.actress_links
                      ELSE doc.profile_links
    IN  Lst(StripAll(performers))

\* the dedupe loop: a variant that keeps the last occurrence of each tag
RECURSIVE Dedup_KeepLast(_)
Dedup_KeepLast(tags) ==
    IF tags = <<>> THEN <<>>
    ELSE IF \E i \in 2..Len(tags) : tags[i] = Head(tags)
         THEN Dedup_KeepLast(Tail(tags))
         ELSE <<Head(tags)>> \o Dedup_KeepLast(Tail(tags))

\* seen = set(); for t in tags: if t not in seen: seen.add(t); dedup.append(t)
RECURSIVE Dedup(_)
Dedup(tags) ==
    IF tags = <<>> THEN <<>>
    ELSE LET front == Dedup(SubSeq(tags, 1, Len(tags) - 1))
             t == tags[Len(tags)]
         IN  IF \E i \in 1..Len(front) : front[i] = t THEN front ELSE Append(front, t)

TagsOf(doc) == Lst(Dedup(StripAll(doc.themes) \o StripAll(doc.plays)))

HttpsScheme == <<"h", "t", "t", "p", "s", ":">>
BASE_SITE == <<"h", "t", "t", "p", "s", ":", "/", "/", "w", "w", "w", ".", "g", "r", "a", "v", "u", "r", "e", "f", "i", "t", ".", "c", "o", "m">>

StartsWith(t, prefix) == Len(t) >= Len(prefix) /\ SubSeq(t, 1, Len(prefix)) = prefix

ImageOf(doc) ==
    LET img == IF doc.img_photopc # <<>> THEN doc.img_photopc
               ELSE IF doc.img_package # <<>> THEN doc.img_package
               ELSE doc.og_image
        image == IF img # <<>> THEN img[1] ELSE <<>>
    IN  IF image = <<>> THEN None
        ELSE IF StartsWith(image, <<"/", "/">>) THEN Text(HttpsScheme \o image)
        ELSE IF StartsWith(image, <<"/">>) THEN Text(BASE_SITE \o image)
        ELSE Text(image)

StudioOf(doc) == IF doc.maker # <<>> THEN Text(Strip(doc.maker[1])) ELSE None

\* str.upper() on the characters that occur
UpperChar(c) ==
    CASE c = "l" -> "L" [] c = "u" -> "U" [] c = "a" -> "A" [] c = "b" -> "B"
      [] OTHER -> c
Upper(t) == [i \in 1..Len(t) |-> UpperChar(t[i])]

\* a url found by the canonical / og:url query: what CODE_REGEX finds in it
\* (empty when it does not match) and its non-empty path segments
CanonUrl(match, segments) == [match |-> match, segments |-> segments]

CodeOf(doc) ==
    LET canon == IF doc.canonical # <<>> THEN doc.canonical ELSE doc.og_url
    IN  IF canon = <<>> THEN None
        ELSE IF canon[1].match # <<>> THEN Text(Upper(canon[1].match))
        ELSE IF canon[1].segments # <<>>
             THEN Text(Upper(canon[1].segments[Len(canon[1].segments)]))
             ELSE None

FieldNames ==
    {"title_raw", "title", "details", "date", "performers", "tags", "image", "studio",
     "code"}

\* the mapping built from a parsed document; dateOf is the date finder of the file
ParsedFields(doc, dateOf) ==
    [f \in FieldNames |->
        CASE f = "title_raw"  -> TitleRawOf(doc)
          [] f = "title"      -> TitleOf(doc)
          [] f = "details"    -> DetailsOf(doc)
          [] f = "date"       -> dateOf
          [] f = "performers" -> PerformersOf(doc)
          [] f = "tags"       -> TagsOf(doc)
          [] f = "image"      -> ImageOf(doc)
          [] f = "studio"     -> StudioOf(doc)
          [] f = "code"       -> CodeOf(doc)]

\* what a key holds when its queries find nothing, and in JavLibrary_python.py
\* when its block raises
EmptyField(f) == IF f \in {"performers", "tags"} THEN Lst(<<>>) ELSE None

\* the outcome of the function: the mapping, or the exception of a field where
\* no handler surrounds the fields
ExtractOutcome(doc, dateOf, handlers) ==
    IF doc.parse = "fail" THEN Returned(NoFields)
    ELSE LET out == ParsedFields(doc, dateOf)
         IN  IF handlers
             THEN Returned([f \in FieldNames |->
                              IF out[f] = FieldRaised THEN EmptyField(f) ELSE out[f]])
             ELSE IF \E f \in FieldNames : out[f] = FieldRaised
                  THEN Raised("IndexError") ELSE Returned(out)

\* Gravurefit_python.py
ExtractGravure(doc) ==
    ExtractOutcome(doc, find_earliest_date_in_text(doc.text_matches), FALSE)

\* JavLibrary_python.py
ExtractGravureJav(doc) ==
    ExtractOutcome(doc, find_earliest_date_from_text(doc.text_matches), TRUE)

(***************************************************************************)
(* The documents given to the extractor.                                   *)
(***************************************************************************)
DocQueries ==
    {"h1", "meta_description", "p_description", "text_matches", "actress_links",
     "profile_links", "themes", "plays", "img_photopc", "img_package", "og_image",
     "maker", "canonical", "og_url"}

\* the queries each key of the mapping is computed from
QueriesOf(f) ==
    CASE f \in {"title_raw", "title"} -> {"h1"}
      [] f = "details"    -> {"meta_description", "p_description"}
      [] f = "date"       -> {"text_matches"}
      [] f = "performers" -> {"actress_links", "profile_links"}
      [] f = "tags"       -> {"themes", "plays"}
      [] f = "image"      -> {"img_photopc", "img_package", "og_image"}
      [] f = "studio"     -> {"maker"}
      [] f = "code"       -> {"canonical", "og_url"}

\* the document with the elements of one key taken out
Without(doc, f) == [q \in DOMAIN doc |-> IF q \in QueriesOf(f) THEN <<>> ELSE doc[q]]

CodeUrl == CanonUrl(<<"l", "u", "l", "u", "-", "2", "5", "5">>, <<<<"v", "i", "d", "e", "o", "s">>, <<"l", "u", "l", "u", "-", "2", "5", "5">>>>)
PlainUrl == CanonUrl(<<>>, <<<<"v", "i", "d", "e", "o", "s">>, <<"a", "b">>>>)
RootUrl == CanonUrl(<<>>, <<>>)

TagTexts == {<<"A">>, <<"B">>, <<"C">>, <<" ", "A">>, <<" ">>}
TagLists == UNION { [1..n -> TagTexts] : n \in 0..MaxTags }

\* every combination of elements present and missing
FieldDocs ==
    [parse            : {"ok"},
     h1               : {<<>>, <<FullTitle>>},
     meta_description : {<<>>, << <<" ", "m">> >>},
     p_description    : {<<>>},
     text_matches     : {<<>>, <<DateMatch("iso", 2019, 3, 1)>>},
     actress_links    : {<<>>, << <<"H">> >>},
     profile_links    : {<<>>, << <<"K">>, <<" ">> >>},
     themes           : {<<>>, << <<"A">> >>},
     plays            : {<<>>, << <<"B">> >>},
     img_photopc      : {<<>>, << <<"/", "/", "c", "/", "a">> >>},
     img_package      : {<<>>, << <<"/", "b">> >>},
     og_image         : {<<>>, << <<"h", ":", "c">> >>},
     maker            : {<<>>, << <<"L", " ">> >>},
     canonical        : {<<>>, <<CodeUrl>>},
     og_url           : {<<>>}]

FullDoc ==
    [parse |-> "ok", h1 |-> <<FullTitle>>, meta_description |-> << <<" ", "m">> >>,
     p_description |-> << <<"p">> >>, text_matches |-> <<DateMatch("iso", 2019, 3, 1)>>,
     actress_links |-> << <<"H">> >>, profile_links |-> <<>>, themes |-> <<>>,
     plays |-> <<>>, img_photopc |-> <<>>, img_package |-> << <<"/", "b">> >>,
     og_image |-> <<>>, maker |-> << <<"L", " ">> >>, canonical |-> <<CodeUrl>>,
     og_url |-> <<>>]

\* every list of theme links and of play links
TagDocs == { [FullDoc EXCEPT !.themes = th, !.plays = pl] : th \in TagLists, pl \in TagLists }

\* html that parses only as str(html_content), and html that does not parse
ParseDocs == { [d EXCEPT !.parse = p] : d \in {FullDoc, Without(FullDoc, "title")},
                                        p \in {"retry_ok", "fail"} }

\* a blank heading, a canonical url without a path, the second query of
\* details and of code, two dates in the text
EdgeDocs ==
    {[FullDoc EXCEPT !.h1 = << <<" ">> >>], [FullDoc EXCEPT !.canonical = <<RootUrl>>],
     [FullDoc EXCEPT !.meta_description = <<>>],
     [FullDoc EXCEPT !.canonical = <<>>, !.og_url = <<PlainUrl>>],
     [FullDoc EXCEPT !.text_matches = <<DateMatch("localized", 2020, 2, 29),
                                        DateMatch("iso", 2019, 3, 1)>>]}

Docs == FieldDocs \cup TagDocs \cup ParseDocs \cup EdgeDocs

InitExtract ==
    /\ OrchIdle
    /\ reply = None
    /\ req \in Docs
    /\ fres = NotCalled

\* extract_gravure_fields of both files applied to the document
CallExtract ==
    /\ fres = NotCalled
    /\ fres' = Returned([grav |-> ExtractGravure(req), jav |-> ExtractGravureJav(req)])
    /\ UNCHANGED <<reply, req, orchVars>>

NextExtract == CallExtract

SpecExtract == InitExtract /\ [][NextExtract]_vars

(***************************************************************************)
(* C12                                                                     *)
(***************************************************************************)
Extracted == fres # NotCalled /\ "grav" \in DOMAIN fres.ret

\* both copies of the function, as functions of the document
Extractors == {"grav", "jav"}
ExtractBy(x, doc) == IF x = "grav" THEN ExtractGravure(doc) ELSE ExtractGravureJav(doc)

TagLinks == req.themes \o req.plays

\* the place of the first link whose stripped text is t
FirstLink(t) ==
    CHOOSE i \in 1..Len(TagLinks) :
        Strip(TagLinks[i]) = t /\ \A j \in 1..(i - 1) : Strip(TagLinks[j]) # t

\* C15: the tags are the stripped non-empty link texts, themes before plays,
\* each once, in the order of their first occurrence.
C15_TagsInFirstOccurrenceOrder ==
    (Extracted /\ req.parse # "fail") =>
        \A x \in Extractors :
            LET tags == fres.ret[x].ret["tags"].l
            IN  /\ \A i \in 1..Len(tags) :
                      /\ tags[i].c # <<>>
                      /\ \E k \in 1..Len(TagLinks) : Strip(TagLinks[k]) = tags[i].c
                /\ \A k \in 1..Len(TagLinks) :
                      Strip(TagLinks[k]) # <<>> =>
                          \E i \in 1..Len(tags) : tags[i] = Text(Strip(TagLinks[k]))
                /\ \A i, j \in 1..Len(tags) :
                      i < j => FirstLink(tags[i].c) < FirstLink(tags[j].c)

\* themes A, B and plays A, C give the tags A, B, C
C15_Witness ==
    /\ Extracted
    /\ req.themes = << <<"A">>, <<"B">> >>
    /\ req.plays = << <<"A">>, <<"C">> >>
    /\ \A x \in Extractors :
          fres.ret[x].ret["tags"] = Lst(<<Text(<<"A">>), Text(<<"B">>), Text(<<"C">>)>>)

(***************************************************************************)
(* C16                                                                     *)
(***************************************************************************)
\* a run of the scene flow that fetched, built its record and ended
SceneRunEnded == pc = "done" /\ IsDict(loc.result) /\ loc.fs # None

\* the proxy's solution.url when the raw response holds one, otherwise the
\* fragment url
ResolvedUrl ==
    LET raw == loc.fs.raw
        sol == IF IsDict(raw) THEN Get(raw, "solution") ELSE None
        u == IF IsDict(sol) THEN Get(sol, "url") ELSE None
    IN  IF IsStr(u) /\ u.s # "" THEN u.s ELSE loc.SCENE_URL.s

WrittenThisRun(dir, name) == name \in DOMAIN dir /\ dir[name] >= StartTime

\* C16: a run that reaches the fetch step has written the raw response to
\* <basename>_flaresolverr_raw.json and the record to <basename>.json, with
\* <basename> the last non-empty path segment of the resolved url, whatever
\* the shape of the raw response.
C16_RawAndOutputFilesWritten ==
    SceneRunEnded =>
        /\ WrittenThisRun(rawDir, Basename(ResolvedUrl) \o "_flaresolverr_raw.json")
        /\ WrittenThisRun(outDir, Basename(ResolvedUrl) \o ".json")

(***************************************************************************)
(* C17                                                                     *)
(***************************************************************************)
AtResolve == pc \in {"resolve", "bp_resolve", "grav_resolve"}

\* C17: whatever the session file holds, the step that loads it and resolves
\* the cookie header does not raise and is followed by the fetch; a file that
\* cannot be loaded gives no Cookie header.
C17_SessionLoadFaultTolerant ==
    [][ AtResolve =>
          /\ pc' \in {"fetch", "bp_fetch", "grav_fetch"}
          /\ load_flaresolverr_session(sessionFile) = None => loc'.cookie_header = None
      ]_vars

(***************************************************************************)
(* C18                                                                     *)
(***************************************************************************)
BlockedTitle == Str("Protected by Cloudflare, try later.")

\* the printed value is a record with the blocked title, or a list holding one
CarriesBlockedTitle(v) ==
    \/ IsDict(v) /\ Get(v, "title") = BlockedTitle
    \/ v.k = "list" /\ \E i \in 1..Len(v.l) :
                          IsDict(v.l[i]) /\ Get(v.l[i], "title") = BlockedTitle

\* the body of the last fetch through the proxy holds a bot-check marker
FetchedBotCheck ==
    loc.fs # None /\ IsStr(loc.fs.html) /\ HasBotCheckMarker(loc.fs.html.s)

\* C18: a run that fetched a body with a bot-check marker prints an output
\* that carries the title "Protected by Cloudflare, try later."
C18_BotCheckPrintsBlockedTitle ==
    (pc = "done" /\ FetchedBotCheck) =>
        /\ stdout # <<>>
        /\ CarriesBlockedTitle(stdout[Len(stdout)])

(***************************************************************************)
(* C19                                                                     *)
(***************************************************************************)
\* the searchName flow got a response from the search endpoint and printed
SearchPrinted ==
    /\ script = "javlibrary" /\ "searchName" \in argv /\ pc = "done"
    /\ Truthy(loc.JAV_SEARCH_HTML)

\* "/en/?v=" in JAV_SEARCH_HTML.url
DirectHit == Get(loc.JAV_SEARCH_HTML, "url").s = JavUrl

Printed == stdout[Len(stdout)]

\* C19 as stated: the direct-hit branch prints a single mapping, the general
\* branch a list of mappings.
C19_DirectHitPrintsSingleMapping ==
    SearchPrinted =>
        /\ DirectHit => IsDict(Printed)
        /\ ~DirectHit =>
              /\ Printed.k = "list"
              /\ \A i \in 1..Len(Printed.l) : IsDict(Printed.l[i])

\* C19, amended: both branches print a non-empty list of mappings; the
\* direct-hit branch prints a list of exactly one mapping with the keys title,
\* details, url and image, the general branch a list of candidates with the
\* keys title, url and image, or the one-entry list with the title that says
\* nothing was found.
C19_BothBranchesPrintLists ==
    SearchPrinted =>
        /\ Printed.k = "list" /\ Printed.l # <<>>
        /\ \A i \in 1..Len(Printed.l) : IsDict(Printed.l[i])
        /\ DirectHit =>
              /\ Len(Printed.l) = 1
              /\ DOMAIN Printed.l[1].d = {"title", "details", "url", "image"}
        /\ ~DirectHit =>
              \/ \A i \in 1..Len(Printed.l) :
                    DOMAIN Printed.l[i].d = {"title", "url", "image"}
              \/ Printed = TitleOnly("The search doesn't return any result.")

\* a direct hit has been printed
C19_Witness ==
    /\ SearchPrinted /\ DirectHit
    /\ Printed = Lst(<<Dict([title |-> Str("ABC-123"),
                            details |-> Str("ABC-123 Some Title"),
                            url |-> Str("https://www.javlibrary.com/en/?v=javme5ly4e"),
                            image |-> Str("https://pics.dmm.co.jp/abc123pl.jpg")])>>)

(***************************************************************************)
(* C20                                                                     *)
(***************************************************************************)
\* the main flow builds the performers from the aliases slot (line 740)
ReadsAliases == pc = "final" /\ pc' = "final_image"

\* the main flow reads the image slot (lines 747-748)
ReadsImage == pc = "final_image" /\ pc' = "final_print"

\* C20 as stated: whenever the main flow reads the slot of a unit, that unit is
\* not running any more, for the image unit and for the aliases unit.
C20_JoinBeforeRead ==
    [][ /\ ReadsImage => loc.imageBase64_jav_thread # "running"
        /\ ReadsAliases => loc.javlibrary_aliases_thread # "running"
      ]_vars

\* C20, amended: the image unit is not running when the main flow reads the
\* image slot, and a record printed after the image unit ran carries what it
\* wrote. (The aliases unit is joined only when WAIT_FOR_ALIASES is set.)
C20_ImageJoinedBeforeRead ==
    [][ /\ ReadsImage => loc.imageBase64_jav_thread # "running"
        /\ (pc = "final_print" /\ pc' = "done"
             /\ loc.imageBase64_jav_thread = "finished") =>
              /\ loc.scrape.image = JR(loc.jav_result, "image")
              /\ loc.scrape.image = Str("data:image/jpeg;base64,AAAA")
      ]_vars

\* the record was printed with the encoded image while the aliases unit was
\* still running
C20_Witness ==
    /\ script = "javlibrary" /\ pc = "done"
    /\ loc.imageBase64_jav_thread = "finished"
    /\ loc.javlibrary_aliases_thread = "running"
    /\ loc.scrape # None
    /\ loc.scrape.image = Str("data:image/jpeg;base64,AAAA")
    /\ loc.scrape.performers = Dict([names |-> Lst(<<Str("Aoi")>>), aliases |-> Lst(<<>>)])

(***************************************************************************)
(* JavLibrary_python.py with WAIT_FOR_ALIASES edited to True, the other     *)
(* settings as the file has them.                                          *)
(***************************************************************************)
InitAliases ==
    /\ script = "javlibrary" /\ argv \in {{}, {"searchName"}, {"validSearch"}}
    /\ stdin \in Stdins
    /\ pc = "start"
    /\ stdout = <<>>
    /\ exitStatus = None
    /\ now = StartTime
    /\ rawDir = NoFiles /\ outDir = NoFiles
    /\ sessionFile = Absent
    /\ netlog = <<>>
    /\ loc = [NoLocals EXCEPT !.WAIT_FOR_ALIASES = TRUE]
    /\ reply = None /\ req = None /\ fres = NotCalled

NextAliases ==
    \/ J_Load \/ J_Read \/ J_Prune \/ J_Request
    \/ BP_Resolve \/ BP_Fetch \/ BP_Save \/ BP_Check
    \/ J_TitleSearch \/ J_SearchPrint \/ J_JavSearch \/ J_ParseMain \/ T_Image \/ T_Aliases
    \/ J_NoResult
    \/ JG_Resolve \/ JG_Fetch \/ JG_SaveRaw \/ JG_SaveCookies \/ JG_Parse \/ JG_SaveOut
    \/ JG_Print
    \/ J_Final \/ J_FinalImage \/ J_FinalPrint

SpecAliases == InitAliases /\ [][NextAliases]_vars

(***************************************************************************)
(* C21                                                                     *)
(***************************************************************************)
\* the final record of the JavLibrary flow is printed (line 752)
PrintsFinalRecord == pc = "final_print" /\ pc' = "done"

\* C21: with WAIT_FOR_ALIASES set, a started aliases unit has finished when
\* the main flow builds the performers list and when it prints the final
\* record, and the performers of the record carry the aliases it wrote.
C21_AliasesJoinedBeforePrint ==
    [][ loc.WAIT_FOR_ALIASES =>
          /\ ReadsAliases => loc.javlibrary_aliases_thread # "running"
          /\ PrintsFinalRecord =>
                /\ loc.javlibrary_aliases_thread # "running"
                /\ loc.javlibrary_aliases_thread = "finished" =>
                      Get(loc.scrape.performers, "aliases")
                          = JR(loc.jav_result, "performer_aliases")
      ]_vars

\* the final record was printed after the aliases unit finished, with the
\* aliases in it
C21_Witness ==
    /\ script = "javlibrary" /\ pc = "done" /\ loc.WAIT_FOR_ALIASES
    /\ loc.javlibrary_aliases_thread = "finished"
    /\ loc.scrape # None
    /\ loc.scrape.performers =
          Dict([names |-> Lst(<<Str("Aoi")>>), aliases |-> Lst(<<Str("Aoi (JP)")>>)])
    /\ stdout = <<Pack(loc.scrape)>>

(***************************************************************************)
(* Two invocations saving to the same session file while a third loads it. *)
(* Here sessionFile is the text of the file, a sequence of tokens; req     *)
(* holds, for each saving invocation, the text it writes, how far it has   *)
(* written and the step it is at; fres is what the load returned.          *)
(* open(path, "w") truncates the file when it opens it; each invocation    *)
(* then writes its text from its own file position, in one or more         *)
(* write calls, whatever another invocation did to the file in between.    *)
(***************************************************************************)
Writers == {1, 2}

LBrace == [t |-> "lbrace"]
RBrace == [t |-> "rbrace"]
Nul == [t |-> "nul"]
TsToken(n) == [t |-> "ts", v |-> n]
CookieToken(c) == [t |-> "cookie", v |-> c]

\* json.dump(payload, f) of {"timestamp": t, "cookies": cookies}
DumpText(payload) ==
    <<LBrace, TsToken(payload.d["timestamp"].n)>>
        \o [k \in 1..Len(payload.d["cookies"].l) |-> CookieToken(payload.d["cookies"].l[k])]
        \o <<RBrace>>

\* the text is one complete object: json.load accepts it
IsCompleteText(text) ==
    /\ Len(text) >= 2
    /\ text[1] = LBrace /\ text[2].t = "ts" /\ text[Len(text)] = RBrace
    /\ \A k \in 3..(Len(text) - 1) : text[k].t = "cookie"

\* load_flaresolverr_session on a file with this text: json.load raises on
\* anything but one complete object and the handler returns None
LoadText(text) ==
    IF IsCompleteText(text)
    THEN Returned(Dict([timestamp |-> Num(text[2].v),
                        cookies |-> Lst([k \in 1..(Len(text) - 3) |-> text[k + 2].v])]))
    ELSE Returned(None)

\* write(chunk) at position off: bytes beyond the end extend the file, a gap
\* left by a truncation reads as NUL
WriteAt(text, off, chunk) ==
    LET end == off + Len(chunk)
        n == IF Len(text) > end THEN Len(text) ELSE end
    IN  [k \in 1..n |-> IF k > off /\ k <= end THEN chunk[k - off]
                        ELSE IF k <= Len(text) THEN text[k] ELSE Nul]

SaveTimes == {StartTime, StartTime + 1}
SavedCookies == {<<Cookie1>>, <<Cookie2, Cookie1>>, <<Cookie1, Cookie2>>}
SavePayloads == { save_flaresolverr_session(Lst(c), t) : c \in SavedCookies, t \in SaveTimes }

\* what an earlier run left in the file
OldPayload == save_flaresolverr_session(Lst(<<Cookie2>>), StartTime - 1)

InitRace ==
    /\ script = "none" /\ argv = {} /\ stdin = [k |-> "empty"] /\ pc = "idle"
    /\ stdout = <<>> /\ exitStatus = None /\ now = StartTime
    /\ rawDir = NoFiles /\ outDir = NoFiles
    /\ netlog = <<>> /\ loc = NoLocals
    /\ sessionFile = DumpText(OldPayload)
    /\ req \in [Writers -> { [step |-> "idle", payload |-> p, off |-> 0] : p \in SavePayloads }]
    /\ reply = None
    /\ fres = NotCalled

RaceFrame ==
    UNCHANGED <<script, argv, stdin, pc, stdout, exitStatus, now, rawDir, outDir, netlog,
                loc, reply>>

\* with open(SESSION_FILE, "w") as f: the file is truncated
W_Open(i) ==
    /\ req[i].step = "idle"
    /\ req' = [req EXCEPT ![i].step = "open"]
    /\ sessionFile' = <<>>
    /\ UNCHANGED fres /\ RaceFrame

\* json.dump(payload, f): the next part of the text reaches the file
W_Write(i) ==
    /\ req[i].step = "open"
    /\ LET text == DumpText(req[i].payload)
       IN  /\ req[i].off < Len(text)
           /\ \E n \in 1..(Len(text) - req[i].off) :
                 /\ sessionFile' = WriteAt(sessionFile, req[i].off,
                                           SubSeq(text, req[i].off + 1, req[i].off + n))
                 /\ req' = [req EXCEPT ![i].off = @ + n]
    /\ UNCHANGED fres /\ RaceFrame

\* the end of the with block once everything is written
W_Close(i) ==
    /\ req[i].step = "open"
    /\ req[i].off = Len(DumpText(req[i].payload))
    /\ req' = [req EXCEPT ![i].step = "closed"]
    /\ UNCHANGED <<sessionFile, fres>> /\ RaceFrame

\* load_flaresolverr_session of a third invocation
R_Load ==
    /\ fres = NotCalled
    /\ fres' = LoadText(sessionFile)
    /\ UNCHANGED <<sessionFile, req>> /\ RaceFrame

NextRace ==
    \/ \E i \in Writers : W_Open(i)
    \/ \E i \in Writers : W_Write(i)
    \/ \E i \in Writers : W_Close(i)
    \/ R_Load

SpecRace == InitRace /\ [][NextRace]_vars

(***************************************************************************)
(* C22                                                                     *)
(***************************************************************************)
BothSaved == \A i \in Writers : req[i].step = "closed"

\* C22: once both invocations have saved, the file holds the complete text of
\* exactly one of them, and a load at any moment returns None or a complete
\* payload (the old one or one of the two saved) without raising.
C22_LastWriterWins ==
    /\ BothSaved => \E i \in Writers : sessionFile = DumpText(req[i].payload)
    /\ fres # NotCalled =>
          /\ fres.exc = "none"
          /\ \/ fres.ret = None
             \/ fres.ret = OldPayload
             \/ \E i \in Writers : fres.ret = req[i].payload

(***************************************************************************)
(* C23                                                                     *)
(***************************************************************************)
\* the fragment is a JSON object without a usable identifier
FragmentWithoutIdentifier ==
    stdin.k = "json" /\ IsDict(stdin.v) /\ NoIdentifier(stdin.v)

\* C23: a run whose fragment has no usable identifier changes no cache
\* directory and not the session file, sends no request, never reaches a step
\* that loads the session, and ends having printed the empty record.
C23_NoIdentifierNoSideEffects ==
    [][ FragmentWithoutIdentifier =>
          /\ rawDir' = rawDir /\ outDir' = outDir
          /\ sessionFile' = sessionFile
          /\ netlog' = netlog
          /\ pc' \notin {"resolve", "bp_resolve", "grav_resolve"}
          /\ pc' = "done" => stdout' = <<EmptyObject>>
      ]_vars

\* ---------------------------------------------------------------------------
\* C24: the mirror loop of bypass_protection
\* ---------------------------------------------------------------------------

\* the step on which bypass_protection returns to its caller (line 558)
BypassReturns == pc \in {"bp_resolve", "bp_check"} /\ pc' = "title_search"

\* the response in hand has status 200 and carries no bot-check marker
ResponseAccepted ==
    /\ pc = "bp_check"
    /\ Get(loc.response_html, "status_code") = Num(200)
    /\ ~HasBotCheckMarker(Get(loc.response_html, "html").s)

\* C24: bypass_protection requests the mirrors of SITE_JAVLIB in list order,
\* moves to the next mirror only after rejecting the response in hand, returns
\* the response of the first mirror answering status 200 without a bot-check
\* marker, returns (None, None) only after the last mirror has been requested and
\* rejected, and PROTECTION_CLOUDFLARE is true on return only when no mirror was
\* accepted, and is true whenever the last rejected response carried the marker.
C24_FirstAcceptedMirror ==
    [][ /\ (pc = "bp_fetch" /\ pc' = "bp_save") =>
               /\ Len(netlog') = Len(netlog) + 1
               /\ netlog'[Len(netlog')].d.url =
                      Str(MirrorUrl(loc.SCENE_URL.s, SITE_JAVLIB[loc.site_i]))
        /\ (pc = "request" /\ pc' = "bp_resolve") => loc'.site_i = 1
        /\ (pc = "bp_check" /\ pc' = "bp_resolve") =>
               ~ResponseAccepted /\ loc'.site_i = loc.site_i + 1
        /\ BypassReturns =>
               IF ResponseAccepted
               THEN /\ loc'.JAV_MAIN_HTML \in {loc.response_html, None}
                    /\ loc'.JAV_MAIN_HTML = None =>
                           ~Truthy(Get(loc.response_html, "html"))
                    /\ ~loc'.PROTECTION_CLOUDFLARE
               ELSE /\ pc = "bp_check" /\ loc.site_i = Len(SITE_JAVLIB)
                    /\ loc'.JAV_MAIN_HTML = None
                    /\ HasBotCheckMarker(Get(loc.response_html, "html").s)
                           => loc'.PROTECTION_CLOUDFLARE
      ]_vars

====
